---- MODULE Spec2Model ----
(***************************************************************************)
(* Ledger of the paper-trading backend: the REST controller                *)
(* (controllers/portfolioController.js) and the GraphQL resolver           *)
(* (graphql/resolvers.js) executing buy and sell requests as PostgreSQL    *)
(* transactions over the tables of db/schema.sql.                          *)
(*                                                                         *)
(* Numbers.  The columns are fixed-point decimals; the model keeps every   *)
(* amount as an integer count of the column's smallest unit:               *)
(*   cash_balance, total_amount   DECIMAL(15,2)  -> cents                  *)
(*   price_per_share, avg_buy_price, current_price                         *)
(*                                DECIMAL(15,4)  -> 1/10000 dollar         *)
(*   quantity                     DECIMAL(15,6)  -> whole shares           *)
(* (quantities of the model are whole numbers, which DECIMAL(15,6) holds   *)
(* exactly).  The handlers compute quantity * pricePerShare as a           *)
(* JavaScript number and PostgreSQL rounds a numeric to the scale of the   *)
(* column it is stored in, half away from zero.  The request fields are    *)
(* JSON numbers, and the inputs of the model are values whose products     *)
(* print exactly (Number.prototype.toString), so the product is modelled   *)
(* in exact arithmetic and the rounding in full.                           *)
(*                                                                         *)
(* Transactions.  Every trade begins with SELECT ... FROM portfolios ...   *)
(* FOR UPDATE: the row lock is held until COMMIT or ROLLBACK.  A           *)
(* transaction's writes are private to it (view) until COMMIT installs     *)
(* them in the committed tables (cash_balance, holdings, transactions),    *)
(* which is all that another connection reads.                             *)
(***************************************************************************)
EXTENDS Integers, Sequences, FiniteSets, TLC

\* ------------------------------------------------------------- bounds
\* Requests started in one behaviour.
MaxRequests == 2
\* Cash of the portfolio at the start of the behaviour, in cents (3.01).
StartCash == 301
\* Requests started in a behaviour of the $100k scenario.
ScenarioRequests == 3
\* watchlist requests of a behaviour
MaxWatchlistCalls == 4
\* recommendations requests of a behaviour
MaxRecommendationCalls == 3
\* calls of the mobile AppProvider in a behaviour
MaxMobileCalls == 4

\* ---------------------------------------------------------- constants
\* 1/10000-dollar units in a cent: the scale of DECIMAL(15,4) over that of
\* DECIMAL(15,2).
PriceUnitsPerCent == 100
\* JavaScript's NaN (0/0), which a numeric column stores as 'NaN'.
NaN == -999999999
\* `cash_balance ... DEFAULT 100000.00`, in cents.
DefaultCash == 10000000
\* JavaScript's null and SQL's NULL in a numeric field.
Null == -888888888

Clients == {"c1", "c2"}
Users == {"u1", "u2"}
Apis == {"rest", "graphql"}
Ops == {"buy", "sell"}
\* ticker strings of the requests, and the symbols they upper-case to
TickerInputs == {"aapl", "MSFT"}
Tickers == {"AAPL", "MSFT"}
\* the values of holdings.ticker: a request's ticker upper-cased, the empty
\* string of a resolver request included
StoredTickers == Tickers \cup {""}
None == "none"

\* ------------------------------------------------------------ helpers
\* String.prototype.toUpperCase on the ticker strings of the model
toUpperCase(s) ==
  CASE s = "aapl" -> "AAPL"
    [] s = "msft" -> "MSFT"
    [] OTHER -> s

Abs(x) == IF x < 0 THEN -x ELSE x
Sign(x) == IF x < 0 THEN -1 ELSE 1

\* PostgreSQL's rounding of the numeric n/d (d > 0) to an integer: half away
\* from zero.
RoundHalfAway(n, d) == Sign(n) * ((2 * Abs(n) + d) \div (2 * d))

\* a value in 1/10000 dollar stored in a DECIMAL(15,2) column, in cents
ToCents(x) == RoundHalfAway(x, PriceUnitsPerCent)

IsNaN(x) == x = NaN

\* quantity * pricePerShare, in 1/10000 dollar
Total(quantity, pricePerShare) == quantity * pricePerShare

\* JavaScript's !x of a number and of a string field
FalsyNumber(x) == x = 0
FalsyString(s) == s = ""

\* the empty holdings of a portfolio: a function of the tickers held
NoHoldings == [t \in {} |-> 0]

\* ---------------------------------------------------------- variables
VARIABLES
  cash_balance,   \* portfolios.cash_balance by user_id, of the rows that exist
  holdings,       \* holdings rows by user_id: ticker -> row
  transactions,   \* transactions rows by user_id, in insertion order
  lock,           \* who holds the FOR UPDATE lock of each portfolios row
  hlock,          \* who holds the FOR UPDATE lock of each holdings row
  conn,           \* each client's pooled connection: held, in a transaction, releases
  req,            \* each client's request: the handler's locals and its place
  view,           \* each client's open transaction: its uncommitted rows
  committed,      \* history: the trades committed, in commit order
  opening,        \* history: each portfolio's rows at the start
  nreq,           \* history: requests started
  users,          \* users rows: id and email
  risk_profiles,  \* risk_profiles rows, by their user_id
  portfolios,     \* portfolios rows: id and user_id
  watchlist,      \* watchlist rows: id, user_id, ticker, added_at
  nwatch,         \* watchlist requests served: the source of row ids and NOW()
  wlast,          \* the last watchlist request and its response
  ai_recommendations, \* ai_recommendations rows, in insertion order
  rec,            \* each client's recommendations request
  nrec,           \* history: recommendations requests started
  app,            \* the mobile AppProvider's state as last rendered
  updates,        \* the state updaters queued since the last render
  storage,        \* AsyncStorage's item stockai_v3: << >>, or <<the saved document>>
  ncall           \* history: mobile calls made

vars ==
  <<cash_balance, holdings, transactions, lock, req, view, committed, opening, nreq,
    hlock, conn, users, risk_profiles, portfolios, watchlist, nwatch, wlast, ai_recommendations,
    rec, nrec, app, updates, storage, ncall>>

Idle ==
  [pc |-> "idle", id |-> 0, api |-> None, op |-> None, user |-> None, ticker |-> None,
   quantity |-> 0, pricePerShare |-> 0, portfolio |-> 0, holdingRows |-> << >>,
   result |-> None, failedAt |-> None, seq0 |-> 0, bal0 |-> 0,
   transaction |-> << >>, updatedCashBalance |-> Null, totalValue |-> Null,
   email |-> None]

NoView == [cash |-> 0, holdings |-> NoHoldings, transactions |-> << >>]

\* the connection of a request that has asked for none: `open` records
\* whether a transaction was open when the connection was released
NoConnection == [held |-> FALSE, tx |-> FALSE, released |-> 0, open |-> FALSE]

\* `const client = await pool.connect()`
connect == [NoConnection EXCEPT !.held = TRUE]

\* `await client.query('BEGIN')`
QueryBegin(k) == [k EXCEPT !.tx = TRUE]

\* `await client.query('COMMIT')`
QueryCommit(k) == [k EXCEPT !.tx = FALSE]

\* `await client.query('ROLLBACK')` of the catch block and of the early
\* answers; with no transaction open it changes nothing
QueryRollback(k) == [k EXCEPT !.tx = FALSE]

\* a handler that returns without reaching client.release()
releaseSkipped(k) == k

\* `finally { client.release(); }`
release(k) == [k EXCEPT !.held = FALSE, !.released = @ + 1, !.open = k.tx]

\* a transaction that ends with its row locks still held
LocksKept(l, c) == l

\* the row locks after c's COMMIT or ROLLBACK: those of c are free
LocksReleased(l, c) == [r \in DOMAIN l |-> IF l[r] = c THEN None ELSE l[r]]

\* the holdings row locks after c's COMMIT or ROLLBACK
HoldingLocksReleased(h, c) == [u \in DOMAIN h |-> LocksReleased(h[u], c)]

\* the inputs of a request
Inputs(us, apis, ops, tickers, quantities, prices) ==
  [user : us, api : apis, op : ops, ticker : tickers,
   quantity : quantities, pricePerShare : prices]

\* the e-mail address of the users registered at the start
\* the mobile app's DEFAULT_HOLDINGS, prices in cents
DEFAULT_HOLDINGS ==
  <<[symbol |-> "AAPL", qty |-> 50, avgPrice |-> 21530],
    [symbol |-> "TSLA", qty |-> 25, avgPrice |-> 24850],
    [symbol |-> "PLTR", qty |-> 200, avgPrice |-> 2280],
    [symbol |-> "SOFI", qty |-> 300, avgPrice |-> 945],
    [symbol |-> "NIO", qty |-> 150, avgPrice |-> 520]>>

\* the mobile app's DEFAULTS: cash 74847.50 in cents
DEFAULTS ==
  [cash |-> 7484750,
   holdings |-> DEFAULT_HOLDINGS,
   watchlist |-> <<"NVDA", "AMD", "GOOGL", "NFLX">>,
   history |->
     <<[type |-> "buy", symbol |-> "AAPL", qty |-> 50, price |-> 21530, date |-> "2025-01-15"],
       [type |-> "buy", symbol |-> "PLTR", qty |-> 200, price |-> 2280, date |-> "2025-01-20"],
       [type |-> "buy", symbol |-> "TSLA", qty |-> 25, price |-> 24850, date |-> "2025-02-01"],
       [type |-> "buy", symbol |-> "NIO", qty |-> 150, price |-> 520, date |-> "2025-02-15"],
       [type |-> "buy", symbol |-> "SOFI", qty |-> 300, price |-> 945, date |-> "2025-03-01"]>>]

\* JSON.stringify of a number: NaN becomes null
JSONNumber(x) == IF x = NaN THEN Null ELSE x

\* JSON.parse(JSON.stringify({ cash, holdings, watchlist, history })): the
\* saved document as the load effect reads it back
stringify(s) ==
  [cash |-> JSONNumber(s.cash),
   holdings |-> [i \in DOMAIN s.holdings |->
                  [s.holdings[i] EXCEPT !.avgPrice = JSONNumber(@)]],
   watchlist |-> s.watchlist,
   history |-> s.history]

\* no recommendations request yet: the handler's locals and its response
NoRecRequest ==
  [pc |-> "idle", api |-> None, user |-> None, code |-> None, recs |-> << >>,
   stored |-> 0, status |-> 0, cached |-> FALSE, message |-> None,
   recommendations |-> << >>]

\* no watchlist request yet
NoWatchRequest == [op |-> None, api |-> None, user |-> None, ticker |-> None, status |-> 0]

\* the id of the portfolios row of an initial user
PortfolioOf(u) == IF u = "u1" THEN "p1" ELSE "p2"

EmailOf(u) == IF u = "u1" THEN "a@x.io" ELSE "b@x.io"

\* the tables at the start: the users `us` have a portfolio each, with the
\* rows of l, n requests are counted as started, and the ai_recommendations
\* rows `stored` were inserted earlier
InitBackend(us, l, n, stored) ==
  /\ cash_balance = [u \in us |-> l.cash]
  /\ holdings = [u \in us |-> l.holdings]
  /\ transactions = [u \in us |-> l.transactions]
  /\ opening = [u \in us |-> l]
  /\ lock = [u \in Users |-> None]
  /\ hlock = [u \in Users |-> [t \in StoredTickers |-> None]]
  /\ conn = [c \in Clients |-> NoConnection]
  /\ req = [c \in Clients |-> Idle]
  /\ view = [c \in Clients |-> NoView]
  /\ committed = << >>
  /\ nreq = n
  /\ users = {[id |-> u, email |-> EmailOf(u)] : u \in us}
  /\ risk_profiles = us
  /\ portfolios = {[id |-> PortfolioOf(u), user_id |-> u] : u \in us}
  /\ watchlist = {}
  /\ nwatch = 0
  /\ wlast = NoWatchRequest
  /\ ai_recommendations = stored
  /\ rec = [c \in Clients |-> NoRecRequest]
  /\ nrec = 0

\* the mobile app mounted with the state s: s rendered, nothing queued, and
\* s saved by the save effect
InitApp(s) ==
  /\ app = s
  /\ updates = << >>
  /\ storage = <<stringify(s)>>
  /\ ncall = 0

InitTables(us, l, n, stored) == InitBackend(us, l, n, stored) /\ InitApp(DEFAULTS)

InitLedgersFrom(us, l, n) == InitTables(us, l, n, << >>)

InitLedgers(us, l) == InitLedgersFrom(us, l, 0)

\* one portfolio, of user u1
InitLedger(l) == InitLedgers({"u1"}, l)

Init == InitLedger([cash |-> StartCash, holdings |-> NoHoldings, transactions |-> << >>])

\* ----------------------------------------------- the handlers' pieces
\* `!ticker || !quantity || !pricePerShare` of the REST controller; the
\* GraphQL resolver has no such test.
Rejected(in) ==
  /\ in.api = "rest"
  /\ (FalsyString(in.ticker) \/ FalsyNumber(in.quantity) \/ FalsyNumber(in.pricePerShare))

\* the cash test with <= for <
InsufficientCashOrEqual(cash, totalCost) == cash * PriceUnitsPerCent <= totalCost

\* `parseFloat(portfolio.cash_balance) < totalCost`
InsufficientCash(cash, totalCost) == cash * PriceUnitsPerCent < totalCost

\* `UPDATE portfolios SET cash_balance = cash_balance - $1`, with $1 the
\* unrounded total and the result rounded to the column's two decimals
DeductCash(cash, totalCost) == ToCents(cash * PriceUnitsPerCent - totalCost)

\* `UPDATE portfolios SET cash_balance = cash_balance + $1`
AddCash(cash, totalProceeds) == ToCents(cash * PriceUnitsPerCent + totalProceeds)

\* the plain mean of the old average and the new price
NewAvgPriceUnweighted(existingQty, existingAvg, quantity, pricePerShare) ==
  IF IsNaN(existingAvg) THEN NaN ELSE RoundHalfAway(existingAvg + pricePerShare, 2)

\* newAvgPrice of a buy into an existing holding, stored in DECIMAL(15,4).
\* The divisor is 0 only for 0/0 (quantities are not negative), which is NaN.
NewAvgPrice(existingQty, existingAvg, quantity, pricePerShare) ==
  IF IsNaN(existingAvg) \/ existingQty + quantity = 0
  THEN NaN
  ELSE RoundHalfAway(existingQty * existingAvg + quantity * pricePerShare,
                     existingQty + quantity)

\* a SELECT of the holding that leaves out `AND ticker = $2`
HoldingRowsAnyTicker(h, ticker) ==
  IF DOMAIN h = {} THEN << >> ELSE <<h[CHOOSE t \in DOMAIN h : TRUE]>>

\* the rows of `SELECT * FROM holdings WHERE portfolio_id = $1 AND ticker = $2`
HoldingRows(h, ticker) == IF ticker \in DOMAIN h THEN <<h[ticker]>> ELSE << >>

\* an upsert whose UPDATE sets the quantity bought in place of adding it
UpsertHoldingReplace(h, rows, ticker, quantity, pricePerShare) ==
  [t \in DOMAIN h \cup {ticker} |->
     IF t = ticker
     THEN [quantity |-> quantity,
           avg_buy_price |-> IF Len(rows) > 0
                             THEN NewAvgPrice(rows[1].quantity, rows[1].avg_buy_price,
                                              quantity, pricePerShare)
                             ELSE pricePerShare,
           current_price |-> pricePerShare]
     ELSE h[t]]

\* the holdings after the buy's upsert: `rows` is what the SELECT returned;
\* the UPDATE adds to the row's quantity and sets the average computed from
\* the row read
UpsertHolding(h, rows, ticker, quantity, pricePerShare) ==
  IF Len(rows) > 0
  THEN IF ticker \in DOMAIN h
       THEN [h EXCEPT ![ticker] =
              [quantity |-> h[ticker].quantity + quantity,
               avg_buy_price |-> NewAvgPrice(rows[1].quantity, rows[1].avg_buy_price,
                                             quantity, pricePerShare),
               current_price |-> pricePerShare]]
       ELSE h
  ELSE [t \in DOMAIN h \cup {ticker} |->
          IF t = ticker
          THEN [quantity |-> quantity, avg_buy_price |-> pricePerShare,
                current_price |-> pricePerShare]
          ELSE h[t]]

\* the share test with <= for <
InsufficientSharesOrEqual(held, quantity) == held <= quantity

\* `parseFloat(holding.quantity) < quantity`
InsufficientShares(held, quantity) == held < quantity

\* the sell's update with `remainingQty < 0` for `remainingQty <= 0`
ReduceHoldingKeepZero(h, ticker, held, quantity, pricePerShare) ==
  LET remainingQty == held - quantity IN
  IF remainingQty < 0
  THEN [t \in DOMAIN h \ {ticker} |-> h[t]]
  ELSE IF ticker \in DOMAIN h
       THEN [h EXCEPT ![ticker] = [@ EXCEPT !.quantity = remainingQty,
                                            !.current_price = pricePerShare]]
       ELSE h

\* the holdings after the sell's update or delete; `held` is the quantity
\* of the row the handler read
ReduceHolding(h, ticker, held, quantity, pricePerShare) ==
  LET remainingQty == held - quantity IN
  IF remainingQty <= 0
  THEN [t \in DOMAIN h \ {ticker} |-> h[t]]
  ELSE IF ticker \in DOMAIN h
       THEN [h EXCEPT ![ticker] = [@ EXCEPT !.quantity = remainingQty,
                                            !.current_price = pricePerShare]]
       ELSE h

\* a row whose total leaves out the quantity
TransactionRowPriceOnly(type, ticker, quantity, pricePerShare) ==
  [ticker |-> ticker, transaction_type |-> type, quantity |-> quantity,
   price_per_share |-> pricePerShare, total_amount |-> ToCents(pricePerShare)]

\* the transactions row of a trade
TransactionRow(type, ticker, quantity, pricePerShare) ==
  [ticker |-> ticker, transaction_type |-> type, quantity |-> quantity,
   price_per_share |-> pricePerShare,
   total_amount |-> ToCents(Total(quantity, pricePerShare))]

\* `updatedCashBalance` of the resolver's TradeResult, in 1/10000 dollar: the
\* cash read at the start less the cost, or plus the proceeds
UpdatedCashBalance(op, cash, total) ==
  IF op = "buy" THEN cash * PriceUnitsPerCent - total
  ELSE cash * PriceUnitsPerCent + total

\* a lock of the whole portfolios table in place of the row's
RowLockFreeTable(u) == \A v \in Users : lock[v] = None

\* a SELECT without FOR UPDATE waits for no lock
RowNeverLocked(u) == TRUE

\* whether SELECT ... FOR UPDATE on the user's portfolios row may proceed
RowLockFree(u) == lock[u] = None

\* whether c's SELECT ... FOR UPDATE on the holdings row may proceed
HoldingLockFree(c, u, t) == hlock[u][t] \in {None, c}

\* the holdings row locks once c's SELECT ... FOR UPDATE has returned `rows`
HoldingLocked(c, u, t, rows) ==
  IF Len(rows) > 0 THEN [hlock EXCEPT ![u][t] = c] ELSE hlock

\* the committed rows of a portfolio
Ledger(u) ==
  [cash |-> cash_balance[u], holdings |-> holdings[u], transactions |-> transactions[u]]

\* a catch block that keeps what the transaction wrote
AfterRollbackPartial(c) == view[c]

\* the committed rows of c's portfolio after c's ROLLBACK
AfterRollback(c) == Ledger(req[c].user)

\* the committed rows of c's portfolio after c's COMMIT
AfterCommit(c) == view[c]

Install(u, l) ==
  /\ cash_balance' = [cash_balance EXCEPT ![u] = l.cash]
  /\ holdings' = [holdings EXCEPT ![u] = l.holdings]
  /\ transactions' = [transactions EXCEPT ![u] = l.transactions]

\* the handler answers: ROLLBACK (when a transaction is open), the response,
\* client.release()
Answer(c, kind, rows) ==
  LET u == req[c].user IN
  /\ req' = [req EXCEPT ![c].pc = "done", ![c].result = kind, ![c].failedAt = req[c].pc,
                        ![c].holdingRows = rows]
  /\ view' = [view EXCEPT ![c] = NoView]
  /\ IF u \in DOMAIN cash_balance /\ lock[u] = c
     THEN Install(u, AfterRollback(c))
     ELSE UNCHANGED <<cash_balance, holdings, transactions>>
  /\ lock' = LocksReleased(lock, c)
  /\ hlock' = HoldingLocksReleased(hlock, c)
  /\ conn' = IF req[c].op \in Ops
             THEN [conn EXCEPT ![c] = release(QueryRollback(@))]
             ELSE conn
  /\ UNCHANGED <<committed, opening, users, risk_profiles, portfolios,
                 watchlist, nwatch, wlast, ai_recommendations,
                 rec, nrec, app, updates, storage, ncall, nreq>>

Fail(c, kind) == Answer(c, kind, req[c].holdingRows)

\* quantity * pricePerShare of a request
TotalOfRequest(r) == Total(r.quantity, r.pricePerShare)

\* ------------------------------------------------------------ actions
\* The handler is entered: pool.connect(), the REST controller's test of the
\* fields, BEGIN.
Start(c, in) ==
  /\ req[c].pc \in {"idle", "done"}
  /\ nreq < MaxRequests
  /\ ~Rejected(in)
  /\ nreq' = nreq + 1
  /\ req' = [req EXCEPT ![c] =
       [Idle EXCEPT !.pc = "begin", !.id = nreq + 1, !.api = in.api, !.op = in.op, !.user = in.user,
                    !.ticker = in.ticker, !.quantity = in.quantity,
                    !.pricePerShare = in.pricePerShare,
                    !.seq0 = Len(committed),
                    !.bal0 = IF in.user \in DOMAIN cash_balance
                             THEN cash_balance[in.user] ELSE 0]]
  /\ conn' = [conn EXCEPT ![c] = QueryBegin(connect)]
  /\ UNCHANGED <<cash_balance, holdings, transactions, lock, view, committed,
                 opening, hlock, users, risk_profiles, portfolios,
                 watchlist, nwatch, wlast, ai_recommendations,
                 rec, nrec, app, updates, storage, ncall>>

\* The REST controller answers 400 before BEGIN.
StartRejected(c, in) ==
  /\ req[c].pc \in {"idle", "done"}
  /\ nreq < MaxRequests
  /\ Rejected(in)
  /\ nreq' = nreq + 1
  /\ req' = [req EXCEPT ![c] =
       [Idle EXCEPT !.pc = "done", !.id = nreq + 1, !.api = in.api, !.op = in.op, !.user = in.user,
                    !.ticker = in.ticker, !.quantity = in.quantity,
                    !.pricePerShare = in.pricePerShare,
                    !.result = "validation", !.failedAt = "idle",
                    !.seq0 = Len(committed),
                    !.bal0 = IF in.user \in DOMAIN cash_balance
                             THEN cash_balance[in.user] ELSE 0]]
  /\ conn' = [conn EXCEPT ![c] = release(connect)]
  /\ UNCHANGED <<cash_balance, holdings, transactions, lock, view, committed,
                 opening, hlock, users, risk_profiles, portfolios,
                 watchlist, nwatch, wlast, ai_recommendations,
                 rec, nrec, app, updates, storage, ncall>>

\* SELECT * FROM portfolios WHERE user_id = $1 FOR UPDATE returns the row,
\* once no other transaction holds its lock.
SelectPortfolio(c) ==
  LET u == req[c].user IN
  /\ req[c].pc = "begin"
  /\ u \in DOMAIN cash_balance
  /\ RowLockFree(u)
  /\ lock' = [lock EXCEPT ![u] = c]
  /\ view' = [view EXCEPT ![c] = Ledger(u)]
  /\ req' = [req EXCEPT ![c].pc = "portfolio", ![c].portfolio = cash_balance[u]]
  /\ UNCHANGED <<cash_balance, holdings, transactions, committed,
                 opening, hlock, conn, users, risk_profiles, portfolios,
                 watchlist, nwatch, wlast, ai_recommendations,
                 rec, nrec, app, updates, storage, ncall, nreq>>

\* The SELECT returns no row: `portfolio` is undefined and reading its field
\* throws, which the catch block answers after ROLLBACK.
PortfolioMissing(c) ==
  /\ req[c].pc = "begin"
  /\ req[c].user \notin DOMAIN cash_balance
  /\ Fail(c, "error")

\* buy: the cash test fails.
BuyInsufficientCash(c) ==
  /\ req[c].pc = "portfolio"
  /\ req[c].op = "buy"
  /\ InsufficientCash(req[c].portfolio, Total(req[c].quantity, req[c].pricePerShare))
  /\ Fail(c, "insufficient_funds")

\* buy: the cash test passes and the cash is deducted.
BuyDeductCash(c) ==
  /\ req[c].pc = "portfolio"
  /\ req[c].op = "buy"
  /\ ~InsufficientCash(req[c].portfolio, Total(req[c].quantity, req[c].pricePerShare))
  /\ view' = [view EXCEPT ![c].cash =
                DeductCash(@, Total(req[c].quantity, req[c].pricePerShare))]
  /\ req' = [req EXCEPT ![c].pc = "cash"]
  /\ UNCHANGED <<cash_balance, holdings, transactions, lock, committed,
                 opening, hlock, conn, users, risk_profiles, portfolios,
                 watchlist, nwatch, wlast, ai_recommendations,
                 rec, nrec, app, updates, storage, ncall, nreq>>

\* buy: SELECT the holding FOR UPDATE, then UPDATE or INSERT it.
BuyUpsertHolding(c) ==
  LET t == toUpperCase(req[c].ticker) IN
  /\ req[c].pc = "cash"
  /\ req[c].op = "buy"
  /\ HoldingLockFree(c, req[c].user, t)
  /\ hlock' = HoldingLocked(c, req[c].user, t, HoldingRows(view[c].holdings, t))
  /\ view' = [view EXCEPT ![c].holdings =
                UpsertHolding(@, HoldingRows(@, t), t, req[c].quantity,
                              req[c].pricePerShare)]
  /\ req' = [req EXCEPT ![c].pc = "holding",
                        ![c].holdingRows = HoldingRows(view[c].holdings, t)]
  /\ UNCHANGED <<cash_balance, holdings, transactions, lock, committed,
                 opening, conn, users, risk_profiles, portfolios,
                 watchlist, nwatch, wlast, ai_recommendations,
                 rec, nrec, app, updates, storage, ncall, nreq>>

\* sell: SELECT the holding FOR UPDATE finds no row.
SellNoHolding(c) ==
  /\ req[c].pc = "portfolio"
  /\ req[c].op = "sell"
  /\ Len(HoldingRows(view[c].holdings, toUpperCase(req[c].ticker))) = 0
  /\ Fail(c, "no_holding")

\* sell: the holding is smaller than the quantity asked.
SellInsufficientShares(c) ==
  LET rows == HoldingRows(view[c].holdings, toUpperCase(req[c].ticker)) IN
  /\ req[c].pc = "portfolio"
  /\ req[c].op = "sell"
  /\ Len(rows) > 0
  /\ HoldingLockFree(c, req[c].user, toUpperCase(req[c].ticker))
  /\ InsufficientShares(rows[1].quantity, req[c].quantity)
  /\ Answer(c, "insufficient_shares", rows)

\* sell: the tests pass and the proceeds are added to the cash.
SellAddCash(c) ==
  LET rows == HoldingRows(view[c].holdings, toUpperCase(req[c].ticker)) IN
  /\ req[c].pc = "portfolio"
  /\ req[c].op = "sell"
  /\ Len(rows) > 0
  /\ HoldingLockFree(c, req[c].user, toUpperCase(req[c].ticker))
  /\ hlock' = HoldingLocked(c, req[c].user, toUpperCase(req[c].ticker), rows)
  /\ ~InsufficientShares(rows[1].quantity, req[c].quantity)
  /\ view' = [view EXCEPT ![c].cash =
                AddCash(@, Total(req[c].quantity, req[c].pricePerShare))]
  /\ req' = [req EXCEPT ![c].pc = "cash", ![c].holdingRows = rows]
  /\ UNCHANGED <<cash_balance, holdings, transactions, lock, committed,
                 opening, conn, users, risk_profiles, portfolios,
                 watchlist, nwatch, wlast, ai_recommendations,
                 rec, nrec, app, updates, storage, ncall, nreq>>

\* sell: UPDATE or DELETE the holding.
SellUpdateHolding(c) ==
  /\ req[c].pc = "cash"
  /\ req[c].op = "sell"
  /\ view' = [view EXCEPT ![c].holdings =
                ReduceHolding(@, toUpperCase(req[c].ticker), req[c].holdingRows[1].quantity,
                              req[c].quantity, req[c].pricePerShare)]
  /\ req' = [req EXCEPT ![c].pc = "holding"]
  /\ UNCHANGED <<cash_balance, holdings, transactions, lock, committed,
                 opening, hlock, conn, users, risk_profiles, portfolios,
                 watchlist, nwatch, wlast, ai_recommendations,
                 rec, nrec, app, updates, storage, ncall, nreq>>

\* INSERT INTO transactions.
InsertTransaction(c) ==
  /\ req[c].pc = "holding"
  /\ view' = [view EXCEPT ![c].transactions =
                Append(@, TransactionRow(req[c].op, toUpperCase(req[c].ticker),
                                         req[c].quantity, req[c].pricePerShare))]
  /\ req' = [req EXCEPT ![c].pc = "tx"]
  /\ UNCHANGED <<cash_balance, holdings, transactions, lock, committed,
                 opening, hlock, conn, users, risk_profiles, portfolios,
                 watchlist, nwatch, wlast, ai_recommendations,
                 rec, nrec, app, updates, storage, ncall, nreq>>

\* COMMIT, the response, client.release().  The resolver's TradeResult
\* carries the row its INSERT returned and updatedCashBalance; the REST
\* response has neither field.
Commit(c) ==
  LET u == req[c].user IN
  /\ req[c].pc = "tx"
  /\ Install(u, AfterCommit(c))
  /\ lock' = LocksReleased(lock, c)
  /\ hlock' = HoldingLocksReleased(hlock, c)
  /\ conn' = [conn EXCEPT ![c] = release(QueryCommit(@))]
  /\ view' = [view EXCEPT ![c] = NoView]
  /\ req' = [req EXCEPT
       ![c].pc = "done", ![c].result = "success",
       ![c].transaction =
          IF req[c].api = "graphql"
          THEN <<view[c].transactions[Len(view[c].transactions)]>> ELSE << >>,
       ![c].updatedCashBalance =
          IF req[c].api = "graphql"
          THEN UpdatedCashBalance(req[c].op, req[c].portfolio, TotalOfRequest(req[c]))
          ELSE Null]
  /\ committed' = Append(committed,
       [user |-> u, op |-> req[c].op, ticker |-> toUpperCase(req[c].ticker),
        quantity |-> req[c].quantity, pricePerShare |-> req[c].pricePerShare])
  /\ UNCHANGED <<opening, users, risk_profiles, portfolios,
                 watchlist, nwatch, wlast, ai_recommendations,
                 rec, nrec, app, updates, storage, ncall, nreq>>

\* A statement of the open transaction fails (the connection drops, a value
\* does not fit its column): the catch block sends ROLLBACK and answers.
DbError(c) ==
  /\ req[c].pc \in {"begin", "portfolio", "cash", "holding", "tx", "valuing"}
  /\ Fail(c, "error")

\* The wait for the row lock ends with an error: the handlers set no
\* timeout, so this happens only when the database is configured with a
\* lock_timeout, and SELECT ... FOR UPDATE then fails as any statement does:
\* the catch block sends ROLLBACK and gives its one answer for every error.
LockTimeout(c) ==
  LET u == req[c].user IN
  /\ req[c].pc = "begin"
  /\ u \in DOMAIN cash_balance
  /\ ~RowLockFree(u)
  /\ req' = [req EXCEPT ![c].pc = "done", ![c].result = "error", ![c].failedAt = "lock"]
  /\ conn' = [conn EXCEPT ![c] = release(QueryRollback(@))]
  /\ UNCHANGED <<cash_balance, holdings, transactions, lock, view, committed,
                 opening, hlock, users, risk_profiles, portfolios,
                 watchlist, nwatch, wlast, ai_recommendations,
                 rec, nrec, app, updates, storage, ncall, nreq>>

\* the steps a handler takes when every statement is answered
Progress(c) ==
  \/ SelectPortfolio(c)
  \/ PortfolioMissing(c)
  \/ BuyInsufficientCash(c)
  \/ BuyDeductCash(c)
  \/ BuyUpsertHolding(c)
  \/ SellNoHolding(c)
  \/ SellInsufficientShares(c)
  \/ SellAddCash(c)
  \/ SellUpdateHolding(c)
  \/ InsertTransaction(c)
  \/ Commit(c)

Step(c) ==
  \/ Progress(c)
  \/ DbError(c)
  \/ LockTimeout(c)

\* ----------------------------------------------------- specifications
NextOf(ins) ==
  \E c \in Clients :
    \/ \E in \in ins : Start(c, in)
    \/ \E in \in ins : StartRejected(c, in)
    \/ Step(c)

\* The requests of Spec: trades of the portfolio's owner through either
\* handler, a request the REST controller rejects, requests with a price or
\* a quantity that is not positive, and a request of a user whose portfolios
\* row is gone.
SpecInputs ==
  Inputs({"u1"}, {"graphql"}, Ops, {"aapl"}, {1, 2}, {10000, 10050})
    \cup Inputs({"u1"}, {"rest"}, Ops, {"aapl"}, {1, 2}, {10050})
    \cup Inputs({"u1"}, {"graphql"}, Ops, {"MSFT"}, {1}, {10000})
    \cup Inputs({"u1"}, {"rest"}, {"buy"}, {"aapl"}, {1}, {0})
    \cup Inputs({"u1"}, {"graphql"}, {"buy"}, {"aapl"}, {0}, {10000})
    \cup Inputs({"u1"}, Apis, {"sell"}, {"aapl"}, {1}, {-50000})
    \cup Inputs({"u2"}, {"graphql"}, {"buy"}, {"MSFT"}, {1}, {10000})

Next == NextOf(SpecInputs)

Spec == Init /\ [][Next]_vars

\* Spec with every statement of a running handler answered in the end: the
\* database executes what it is sent, and Node runs the continuation of
\* every await whose promise settles.
SpecLive == Spec /\ \A c \in Clients : WF_vars(Progress(c))

\* A portfolio that already holds two AAPL bought at 1.0000, with the buy's
\* transactions row.
HeldLedger ==
  [cash |-> StartCash,
   holdings |-> [t \in {"AAPL"} |->
                   [quantity |-> 2, avg_buy_price |-> 10000, current_price |-> 10000]],
   transactions |-> <<TransactionRow("buy", "AAPL", 2, 10000)>>]

InitHeld == InitLedger(HeldLedger)

SpecHeld == InitHeld /\ [][Next]_vars

\* ---------------------------------------------------------- valuation
\* the tickers in the order of `ORDER BY ticker`
TickerOrder == <<"AAPL", "MSFT">>

\* the rows of `SELECT * FROM holdings WHERE portfolio_id = $1 ORDER BY ticker`
SelectHoldings(h) ==
  LET held == SelectSeq(TickerOrder, LAMBDA t : t \in DOMAIN h)
  IN [i \in 1..Len(held) |-> h[held[i]]]

\* `h.current_price || h.avg_buy_price` with the prices of the zero mistaken
\* for missing ones: || applied to the parsed numbers
PriceOrAvgOfNumbers(row) ==
  IF row.current_price = Null \/ row.current_price = 0
  THEN row.avg_buy_price ELSE row.current_price

\* `h.current_price || h.avg_buy_price`: the driver returns a numeric column
\* as a string, which is falsy only when the column is NULL
PriceOrAvg(row) ==
  IF row.current_price = Null THEN row.avg_buy_price ELSE row.current_price

\* `rows.reduce((sum, h) => sum + parseFloat(h.current_price ||
\* h.avg_buy_price) * parseFloat(h.quantity), 0)`, in 1/10000 dollar
RECURSIVE reduce(_, _)
reduce(rows, sum) ==
  IF rows = << >> THEN sum
  ELSE reduce(Tail(rows), sum + PriceOrAvg(Head(rows)) * Head(rows).quantity)

\* totalValue of REST getPortfolio: `parseFloat(portfolio.cash_balance) +
\* holdingsValue`, in 1/10000 dollar
getPortfolioTotalValue(cash, rows) == cash * PriceUnitsPerCent + reduce(rows, 0)

\* a valuation by the cash alone
TotalValueCashOnly(cash, rows) == cash * PriceUnitsPerCent

\* totalValue of GraphQL Portfolio.totalValue: `parseFloat(parent.cash_balance)
\* + holdingsValue`, in 1/10000 dollar
PortfolioTotalValue(cash, rows) == cash * PriceUnitsPerCent + reduce(rows, 0)

TotalValue(api, cash, rows) ==
  IF api = "rest" THEN getPortfolioTotalValue(cash, rows)
  ELSE PortfolioTotalValue(cash, rows)

\* getPortfolio / Query.portfolio: the portfolios row is read, by a
\* statement of its own outside any transaction.
GetPortfolio(c, u, api) ==
  /\ req[c].pc \in {"idle", "done"}
  /\ nreq < MaxRequests
  /\ u \in DOMAIN cash_balance
  /\ nreq' = nreq + 1
  /\ req' = [req EXCEPT ![c] =
       [Idle EXCEPT !.pc = "valuing", !.id = nreq + 1, !.api = api, !.op = "value",
                    !.user = u, !.portfolio = cash_balance[u],
                    !.seq0 = Len(committed), !.bal0 = cash_balance[u]]]
  /\ UNCHANGED <<cash_balance, holdings, transactions, lock, view, committed,
                 opening, hlock, conn, users, risk_profiles, portfolios,
                 watchlist, nwatch, wlast, ai_recommendations,
                 rec, nrec, app, updates, storage, ncall>>

\* getPortfolio / Query.portfolio: no portfolios row, 404 or the error
\* 'Portfolio not found.'
GetPortfolioNotFound(c, u, api) ==
  /\ req[c].pc \in {"idle", "done"}
  /\ nreq < MaxRequests
  /\ u \notin DOMAIN cash_balance
  /\ nreq' = nreq + 1
  /\ req' = [req EXCEPT ![c] =
       [Idle EXCEPT !.pc = "done", !.id = nreq + 1, !.api = api, !.op = "value",
                    !.user = u, !.result = "not_found", !.failedAt = "idle",
                    !.seq0 = Len(committed)]]
  /\ UNCHANGED <<cash_balance, holdings, transactions, lock, view, committed,
                 opening, hlock, conn, users, risk_profiles, portfolios,
                 watchlist, nwatch, wlast, ai_recommendations,
                 rec, nrec, app, updates, storage, ncall>>

\* getPortfolio / Portfolio.totalValue: the holdings are read, by a second
\* statement, and the value is returned.
ReadHoldings(c) ==
  LET rows == SelectHoldings(holdings[req[c].user]) IN
  /\ req[c].pc = "valuing"
  /\ req' = [req EXCEPT ![c].pc = "done", ![c].result = "valued",
                        ![c].holdingRows = rows,
                        ![c].totalValue = TotalValue(req[c].api, req[c].portfolio, rows)]
  /\ UNCHANGED <<cash_balance, holdings, transactions, lock, view, committed,
                 opening, hlock, conn, users, risk_profiles, portfolios,
                 watchlist, nwatch, wlast, ai_recommendations,
                 rec, nrec, app, updates, storage, ncall, nreq>>

\* A portfolio with two AAPL, bought at 1.0000 and last priced at 1.0050,
\* and one MSFT whose current_price is NULL (the column is nullable).
ValuedLedger ==
  [cash |-> StartCash,
   holdings |-> [t \in {"AAPL", "MSFT"} |->
                   IF t = "AAPL"
                   THEN [quantity |-> 2, avg_buy_price |-> 10000, current_price |-> 10050]
                   ELSE [quantity |-> 1, avg_buy_price |-> 10000, current_price |-> Null]],
   transactions |-> <<TransactionRow("buy", "AAPL", 2, 10000),
                      TransactionRow("buy", "MSFT", 1, 10000)>>]

InitValued == InitLedger(ValuedLedger)

\* the trades next to the valuations: a buy at the price 0, sells that
\* change and remove holdings, and requests that are refused
ValueInputs ==
  Inputs({"u1"}, {"graphql"}, {"buy"}, {"aapl"}, {1}, {0})
    \cup Inputs({"u1"}, {"graphql"}, {"buy"}, {"aapl"}, {4}, {10050})
    \cup Inputs({"u1"}, {"graphql"}, {"sell"}, {"aapl"}, {1, 3}, {10050})
    \cup Inputs({"u1"}, {"graphql"}, {"sell"}, {"MSFT"}, {1}, {10000})
    \cup Inputs({"u1"}, {"rest"}, {"buy"}, {"aapl"}, {1}, {0})
    \cup Inputs({"u2"}, {"graphql"}, {"buy"}, {"aapl"}, {1}, {10050})

NextValued ==
  \/ NextOf(ValueInputs)
  \/ \E c \in Clients :
       \/ \E u \in Users, api \in Apis : GetPortfolio(c, u, api)
       \/ \E u \in Users, api \in Apis : GetPortfolioNotFound(c, u, api)
       \/ ReadHoldings(c)

SpecValued == InitValued /\ [][NextValued]_vars

\* ------------------------------------------------------ $100k scenario
\* The portfolio as registration creates it: the default cash, no holding,
\* no transaction.  The behaviours start ScenarioRequests requests.
InitScenario ==
  InitLedgersFrom({"u1"},
                  [cash |-> DefaultCash, holdings |-> NoHoldings, transactions |-> << >>],
                  MaxRequests - ScenarioRequests)

\* buy 50 AAPL at 215.30, buy 50 AAPL at 225.00, sell 100 AAPL at 230.00;
\* next to them a buy of 500 at 225.00, which the cash does not cover, a
\* request the REST controller rejects and one of a user with no portfolio
ScenarioInputs ==
  Inputs({"u1"}, {"graphql"}, {"buy"}, {"AAPL"}, {50}, {2153000, 2250000})
    \cup Inputs({"u1"}, {"graphql"}, {"sell"}, {"AAPL"}, {100}, {2300000})
    \cup Inputs({"u1"}, {"graphql"}, {"buy"}, {"AAPL"}, {500}, {2250000})
    \cup Inputs({"u1"}, {"rest"}, {"buy"}, {"AAPL"}, {0}, {2153000})
    \cup Inputs({"u2"}, {"graphql"}, {"buy"}, {"AAPL"}, {50}, {2153000})

SpecScenario == InitScenario /\ [][NextOf(ScenarioInputs)]_vars

\* Two portfolios, of u1 and u2, and trades of both users: the requests of
\* u3 find no portfolios row.
InitTwo ==
  InitLedgers({"u1", "u2"},
              [cash |-> StartCash, holdings |-> NoHoldings, transactions |-> << >>])

TwoInputs ==
  Inputs({"u1", "u2"}, {"graphql"}, Ops, {"aapl"}, {1, 2}, {10050})
    \cup Inputs({"u1"}, {"rest"}, {"buy"}, {"aapl"}, {1}, {0})
    \cup Inputs({"u3"}, {"rest"}, {"buy"}, {"aapl"}, {1}, {10050})

SpecTwo == InitTwo /\ [][NextOf(TwoInputs)]_vars

\* ------------------------------------------------------- registration
\* the ids uuid_generate_v4() gives to new users rows
NewIds == {"u3", "u4", "u5"}

\* the ids uuid_generate_v4() gives to new portfolios rows
NewPortfolioIds == {"p3", "p4", "p5"}

\* the e-mail addresses of the register requests: a@x.io is u1's
RegisterEmails == {"a@x.io", "c@x.io"}

\* the rows a register transaction has written and not committed
NoRows == [users |-> {}, risk_profiles |-> {}, portfolios |-> {}]

Registering(c) == req[c].op = "register" /\ req[c].pc \notin {"idle", "done"}

\* the users rows other open transactions have inserted
UncommittedUsers(c) ==
  UNION {view[d].users : d \in {x \in Clients : x # c /\ Registering(x)}}

\* an id no row has, committed or not
FreshId(c) ==
  CHOOSE id \in NewIds :
    id \notin {r.id : r \in users \cup UncommittedUsers(c)}

\* the portfolios rows other open transactions have inserted
UncommittedPortfolios(c) ==
  UNION {view[d].portfolios : d \in {x \in Clients : x # c /\ Registering(x)}}

FreshPortfolioId(c) ==
  CHOOSE id \in NewPortfolioIds :
    id \notin {r.id : r \in portfolios \cup UncommittedPortfolios(c)}

\* the user_ids of portfolios rows
UserIds(rows) == {r.user_id : r \in rows}

\* a catch block that keeps the users row, as if it had been inserted
\* before BEGIN
RegisterRollbackKeepsUser(c) == [NoRows EXCEPT !.users = view[c].users]

\* the rows of c's transaction that outlast its ROLLBACK: none
RegisterRollback(c) == NoRows

\* the rows install in the tables; a portfolios row has the default cash
\* and neither holdings nor transactions
InstallRows(rows) ==
  /\ users' = users \cup rows.users
  /\ risk_profiles' = risk_profiles \cup rows.risk_profiles
  /\ portfolios' = portfolios \cup rows.portfolios
  /\ cash_balance' = [u \in DOMAIN cash_balance \cup UserIds(rows.portfolios) |->
                        IF u \in DOMAIN cash_balance THEN cash_balance[u] ELSE DefaultCash]
  /\ holdings' = [u \in DOMAIN holdings \cup UserIds(rows.portfolios) |->
                    IF u \in DOMAIN holdings THEN holdings[u] ELSE NoHoldings]
  /\ transactions' = [u \in DOMAIN transactions \cup UserIds(rows.portfolios) |->
                        IF u \in DOMAIN transactions THEN transactions[u] ELSE << >>]

\* register answers without a commit: ROLLBACK, the response,
\* client.release()
RegisterFail(c, kind) ==
  /\ req' = [req EXCEPT ![c].pc = "done", ![c].result = kind, ![c].failedAt = req[c].pc]
  /\ InstallRows(RegisterRollback(c))
  /\ view' = [view EXCEPT ![c] = NoView]
  /\ conn' = [conn EXCEPT ![c] = release(QueryRollback(@))]
  /\ UNCHANGED <<lock, hlock, committed, opening, nreq,
                 watchlist, nwatch, wlast, ai_recommendations,
                 rec, nrec, app, updates, storage, ncall>>

\* register is entered: pool.connect() and the request's fields.
Register(c, email, api) ==
  /\ req[c].pc \in {"idle", "done"}
  /\ nreq < MaxRequests
  /\ nreq' = nreq + 1
  /\ req' = [req EXCEPT ![c] =
       [Idle EXCEPT !.pc = "reg_select", !.id = nreq + 1, !.api = api,
                    !.op = "register", !.email = email, !.seq0 = Len(committed)]]
  /\ view' = [view EXCEPT ![c] = NoRows]
  /\ conn' = [conn EXCEPT ![c] = connect]
  /\ UNCHANGED <<cash_balance, holdings, transactions, lock, committed, opening,
                 hlock, users, risk_profiles, portfolios,
                 watchlist, nwatch, wlast, ai_recommendations,
                 rec, nrec, app, updates, storage, ncall>>

\* `SELECT id FROM users WHERE email = $1` finds a row: 409 'Email already
\* registered.', or the resolver's error of that message.
RegisterEmailTaken(c) ==
  /\ req[c].pc = "reg_select"
  /\ \E r \in users : r.email = req[c].email
  /\ RegisterFail(c, "email_taken")

\* The SELECT finds no row: BEGIN.
RegisterBegin(c) ==
  /\ req[c].pc = "reg_select"
  /\ ~\E r \in users : r.email = req[c].email
  /\ req' = [req EXCEPT ![c].pc = "reg_begin"]
  /\ conn' = [conn EXCEPT ![c] = QueryBegin(@)]
  /\ UNCHANGED <<cash_balance, holdings, transactions, lock, view, committed, opening,
                 nreq, hlock, users, risk_profiles, portfolios,
                 watchlist, nwatch, wlast, ai_recommendations,
                 rec, nrec, app, updates, storage, ncall>>

\* INSERT INTO users ... RETURNING id: it waits while another transaction
\* holds an uncommitted row of the same email (users.email is UNIQUE).
RegisterInsertUser(c) ==
  /\ req[c].pc = "reg_begin"
  /\ ~\E r \in users \cup UncommittedUsers(c) : r.email = req[c].email
  /\ view' = [view EXCEPT ![c].users = {[id |-> FreshId(c), email |-> req[c].email]}]
  /\ req' = [req EXCEPT ![c].pc = "reg_user", ![c].user = FreshId(c)]
  /\ UNCHANGED <<cash_balance, holdings, transactions, lock, committed, opening,
                 nreq, hlock, conn, users, risk_profiles, portfolios,
                 watchlist, nwatch, wlast, ai_recommendations,
                 rec, nrec, app, updates, storage, ncall>>

\* INSERT INTO users violates the UNIQUE constraint: a row of the email was
\* committed after the SELECT.  The catch block answers 'Registration
\* failed.', or the resolver rethrows.
RegisterDuplicate(c) ==
  /\ req[c].pc = "reg_begin"
  /\ \E r \in users : r.email = req[c].email
  /\ RegisterFail(c, "error")

\* INSERT INTO risk_profiles (user_id, ...).
RegisterInsertRiskProfile(c) ==
  /\ req[c].pc = "reg_user"
  /\ view' = [view EXCEPT ![c].risk_profiles = {req[c].user}]
  /\ req' = [req EXCEPT ![c].pc = "reg_risk"]
  /\ UNCHANGED <<cash_balance, holdings, transactions, lock, committed, opening,
                 nreq, hlock, conn, users, risk_profiles, portfolios,
                 watchlist, nwatch, wlast, ai_recommendations,
                 rec, nrec, app, updates, storage, ncall>>

\* INSERT INTO portfolios (user_id): user_id is UNIQUE, and no row has the
\* id the users row was just given.
RegisterInsertPortfolio(c) ==
  /\ req[c].pc = "reg_risk"
  /\ req[c].user \notin UserIds(portfolios \cup UncommittedPortfolios(c))
  /\ view' = [view EXCEPT ![c].portfolios =
                 {[id |-> FreshPortfolioId(c), user_id |-> req[c].user]}]
  /\ req' = [req EXCEPT ![c].pc = "reg_portfolio"]
  /\ UNCHANGED <<cash_balance, holdings, transactions, lock, committed, opening,
                 nreq, hlock, conn, users, risk_profiles, portfolios,
                 watchlist, nwatch, wlast, ai_recommendations,
                 rec, nrec, app, updates, storage, ncall>>

\* COMMIT.
RegisterCommit(c) ==
  /\ req[c].pc = "reg_portfolio"
  /\ InstallRows(view[c])
  /\ req' = [req EXCEPT ![c].pc = "reg_committed"]
  /\ view' = [view EXCEPT ![c] = NoRows]
  /\ conn' = [conn EXCEPT ![c] = QueryCommit(@)]
  /\ UNCHANGED <<lock, hlock, committed, opening, nreq,
                 watchlist, nwatch, wlast, ai_recommendations,
                 rec, nrec, app, updates, storage, ncall>>

\* jwt.sign and the response: 201, or the resolver's AuthPayload.
RegisterRespond(c) ==
  /\ req[c].pc = "reg_committed"
  /\ req' = [req EXCEPT ![c].pc = "done", ![c].result = "success"]
  /\ view' = [view EXCEPT ![c] = NoView]
  /\ conn' = [conn EXCEPT ![c] = release(@)]
  /\ UNCHANGED <<cash_balance, holdings, transactions, lock, committed, opening,
                 nreq, hlock, users, risk_profiles, portfolios,
                 watchlist, nwatch, wlast, ai_recommendations,
                 rec, nrec, app, updates, storage, ncall>>

\* A statement of register fails (the connection drops, bcrypt.hash throws,
\* a CHECK constraint refuses the risk profile, jwt.sign throws after the
\* COMMIT): ROLLBACK and the answer.
RegisterError(c) ==
  /\ req[c].pc \in {"reg_select", "reg_begin", "reg_user", "reg_risk", "reg_portfolio",
                    "reg_committed"}
  /\ RegisterFail(c, "error")

NextRegister ==
  \E c \in Clients :
    \/ \E email \in RegisterEmails, api \in Apis : Register(c, email, api)
    \/ RegisterEmailTaken(c)
    \/ RegisterBegin(c)
    \/ RegisterInsertUser(c)
    \/ RegisterDuplicate(c)
    \/ RegisterInsertRiskProfile(c)
    \/ RegisterInsertPortfolio(c)
    \/ RegisterCommit(c)
    \/ RegisterRespond(c)
    \/ RegisterError(c)

SpecRegister == Init /\ [][NextRegister]_vars

\* ---------------------------------------------------------- watchlist
ledgerVars ==
  <<cash_balance, holdings, transactions, lock, req, view, committed, opening, nreq,
    hlock, conn, users, risk_profiles, portfolios>>

watchVars == <<watchlist, nwatch, wlast>>

recVars == <<ai_recommendations, rec, nrec>>

mobileVars == <<app, updates, storage, ncall>>

\* the ticker strings of the watchlist requests
WatchTickerInputs == {"aapl", "AAPL", "MSFT", ""}

\* a handler that stores the ticker as it was sent
WatchlistTickerAsGiven(ticker) == ticker

\* the ticker parameter of the INSERT and of the DELETE
WatchlistTicker(ticker) == toUpperCase(ticker)

\* the rows UNIQUE(user_id, ticker) sets against a new row
WatchlistConflict(u, t) == {w \in watchlist : w.user_id = u /\ w.ticker = t}

\* the row INSERT INTO watchlist (user_id, ticker) makes: id and added_at
\* from their defaults
WatchlistRow(u, t) == [id |-> nwatch + 1, user_id |-> u, ticker |-> t, added_at |-> nwatch + 1]

WatchlistServed(op, api, u, ticker, status) ==
  /\ nwatch < MaxWatchlistCalls
  /\ nwatch' = nwatch + 1
  /\ wlast' = [op |-> op, api |-> api, user |-> u, ticker |-> ticker, status |-> status]
  /\ UNCHANGED <<ledgerVars, recVars, mobileVars>>

\* POST /api/watchlist: 400 without a ticker, 409 when ON CONFLICT DO
\* NOTHING returned no row, 201 otherwise.
addToWatchlist(u, ticker) ==
  IF FalsyString(ticker)
  THEN /\ WatchlistServed("add", "rest", u, ticker, 400)
       /\ UNCHANGED watchlist
  ELSE IF WatchlistConflict(u, WatchlistTicker(ticker)) # {}
  THEN /\ WatchlistServed("add", "rest", u, ticker, 409)
       /\ UNCHANGED watchlist
  ELSE /\ WatchlistServed("add", "rest", u, ticker, 201)
       /\ watchlist' = watchlist \cup {WatchlistRow(u, WatchlistTicker(ticker))}

\* Mutation.addToWatchlist: ON CONFLICT DO UPDATE SET added_at = NOW().
MutationAddToWatchlist(u, ticker) ==
  /\ WatchlistServed("add", "graphql", u, ticker, 200)
  /\ LET t == WatchlistTicker(ticker)
         conflict == WatchlistConflict(u, t)
     IN  watchlist' =
           IF conflict = {}
           THEN watchlist \cup {WatchlistRow(u, t)}
           ELSE (watchlist \ conflict) \cup
                {[w EXCEPT !.added_at = nwatch + 1] : w \in conflict}

\* DELETE /api/watchlist/:ticker and Mutation.removeFromWatchlist: the
\* route parameter is never empty.
removeFromWatchlist(u, ticker, api) ==
  /\ api = "rest" => ticker # ""
  /\ WatchlistServed("remove", api, u, ticker, 200)
  /\ watchlist' = watchlist \ WatchlistConflict(u, WatchlistTicker(ticker))

\* pool.query rejects: 500, or the resolver's error.
WatchlistError(u, ticker, api) ==
  /\ \E op \in {"add", "remove"} : WatchlistServed(op, api, u, ticker, 500)
  /\ UNCHANGED watchlist

NextWatchlist ==
  \E u \in Users, ticker \in WatchTickerInputs :
    \/ addToWatchlist(u, ticker)
    \/ MutationAddToWatchlist(u, ticker)
    \/ \E api \in Apis : removeFromWatchlist(u, ticker, api)
    \/ \E api \in Apis : WatchlistError(u, ticker, api)

SpecWatchlist == Init /\ [][NextWatchlist]_vars

\* ----------------------------------------------------- recommendations
\* error.code of a failed axios.post: connection refused, a socket timeout,
\* the 30000 ms axios timeout, a 5xx and a 4xx response
ErrorCodes == {"ECONNREFUSED", "ETIMEDOUT", "ECONNABORTED", "ERR_BAD_RESPONSE", "ERR_BAD_REQUEST"}

\* mlResponse.data.recommendations
Predictions ==
  {<<[ticker |-> "AAPL", recommendation |-> "buy"]>>,
   <<[ticker |-> "AAPL", recommendation |-> "sell"],
     [ticker |-> "MSFT", recommendation |-> "hold"]>>}

\* LIMIT 10
CachedLimit == 10

\* the messages of the two degraded answers
CachedMessage(api) ==
  IF api = "rest"
  THEN "AI service temporarily unavailable. Showing latest cached recommendations."
  ELSE "AI service temporarily unavailable. Showing cached recommendations."

\* a fallback that takes the oldest row of each ticker
LatestOfOldest(rows) ==
  CHOOSE r \in rows : \A o \in rows : o.created_at >= r.created_at

\* ORDER BY created_at DESC within a ticker: the first row
LatestOf(rows) ==
  CHOOSE r \in rows : \A o \in rows : o.created_at <= r.created_at

\* the rows of user u in the table
RecommendationsOf(table, u) == {table[i] : i \in {j \in DOMAIN table : table[j].user_id = u}}

RECURSIVE DistinctOnTicker(_, _)
\* SELECT DISTINCT ON (ticker) ... ORDER BY ticker, created_at DESC over the
\* rows given, ticker by ticker in the order of tickers
DistinctOnTicker(rows, tickers) ==
  IF tickers = << >> THEN << >>
  ELSE LET mine == {r \in rows : r.ticker = Head(tickers)}
       IN  (IF mine = {} THEN << >> ELSE <<LatestOf(mine)>>)
             \o DistinctOnTicker(rows, Tail(tickers))

Limit(rows, n) == IF Len(rows) > n THEN SubSeq(rows, 1, n) ELSE rows

\* the cached query of the catch block
SelectCached(table, u) ==
  Limit(DistinctOnTicker(RecommendationsOf(table, u), TickerOrder), CachedLimit)

\* the recommendations request is answered
RecAnswer(c, status, cached, message, recommendations) ==
  rec' = [rec EXCEPT ![c].pc = "done", ![c].status = status, ![c].cached = cached,
                     ![c].message = message, ![c].recommendations = recommendations]

\* 503 'AI recommendation service temporarily unavailable.', or the
\* resolver's error of that message
RecUnavailable(c) == RecAnswer(c, 503, FALSE, None, << >>)

\* getRecommendations / Query.recommendations is entered: the risk profile
\* and the holdings are read.
GetRecommendations(c, u, api) ==
  /\ rec[c].pc \in {"idle", "done"}
  /\ nrec < MaxRecommendationCalls
  /\ u \in risk_profiles
  /\ nrec' = nrec + 1
  /\ rec' = [rec EXCEPT ![c] = [NoRecRequest EXCEPT !.pc = "predict", !.api = api, !.user = u]]
  /\ UNCHANGED <<ledgerVars, watchVars, mobileVars, ai_recommendations>>

\* axios.post answers: the recommendations to store.
PredictOk(c, recs) ==
  /\ rec[c].pc = "predict"
  /\ rec' = [rec EXCEPT ![c].pc = "store", ![c].recs = recs]
  /\ UNCHANGED <<ledgerVars, watchVars, mobileVars, ai_recommendations, nrec>>

\* One INSERT INTO ai_recommendations of the loop: created_at DEFAULT NOW().
StoreRecommendation(c) ==
  /\ rec[c].pc = "store"
  /\ rec[c].stored < Len(rec[c].recs)
  /\ ai_recommendations' = Append(ai_recommendations,
       [user_id |-> rec[c].user,
        ticker |-> rec[c].recs[rec[c].stored + 1].ticker,
        recommendation |-> rec[c].recs[rec[c].stored + 1].recommendation,
        created_at |-> Len(ai_recommendations) + 1])
  /\ rec' = [rec EXCEPT ![c].stored = rec[c].stored + 1]
  /\ UNCHANGED <<ledgerVars, watchVars, mobileVars, nrec>>

\* The loop is over: the live answer.
RespondLive(c) ==
  /\ rec[c].pc = "store"
  /\ rec[c].stored = Len(rec[c].recs)
  /\ RecAnswer(c, 200, FALSE, None, rec[c].recs)
  /\ UNCHANGED <<ledgerVars, watchVars, mobileVars, ai_recommendations, nrec>>

\* An INSERT of the loop fails: the catch block, with a code that is none
\* of axios's.
StoreError(c) ==
  /\ rec[c].pc = "store"
  /\ rec[c].stored < Len(rec[c].recs)
  /\ RecUnavailable(c)
  /\ UNCHANGED <<ledgerVars, watchVars, mobileVars, ai_recommendations, nrec>>

\* axios.post fails: the catch block reads the cache for ECONNREFUSED and
\* ETIMEDOUT and answers 503 for every other code.
PredictFails(c, code) ==
  /\ rec[c].pc = "predict"
  /\ IF code = "ECONNREFUSED" \/ code = "ETIMEDOUT"
     THEN rec' = [rec EXCEPT ![c].pc = "cached", ![c].code = code]
     ELSE rec' = [rec EXCEPT ![c].pc = "done", ![c].code = code, ![c].status = 503]
  /\ UNCHANGED <<ledgerVars, watchVars, mobileVars, ai_recommendations, nrec>>

\* The cached query: its rows with cached: true and the message, or 503
\* when it returns none.
ReadCached(c) ==
  /\ rec[c].pc = "cached"
  /\ LET cached == SelectCached(ai_recommendations, rec[c].user)
     IN  IF Len(cached) > 0
         THEN RecAnswer(c, 200, TRUE, CachedMessage(rec[c].api), cached)
         ELSE RecUnavailable(c)
  /\ UNCHANGED <<ledgerVars, watchVars, mobileVars, ai_recommendations, nrec>>

NextRecommendations ==
  \E c \in Clients :
    \/ \E u \in Users, api \in Apis : GetRecommendations(c, u, api)
    \/ \E recs \in Predictions : PredictOk(c, recs)
    \/ StoreRecommendation(c)
    \/ RespondLive(c)
    \/ StoreError(c)
    \/ \E code \in ErrorCodes : PredictFails(c, code)
    \/ ReadCached(c)

\* two users; a recommendation of u2 was stored earlier
InitRecommendations ==
  InitTables({"u1", "u2"},
             [cash |-> StartCash, holdings |-> NoHoldings, transactions |-> << >>], 0,
             <<[user_id |-> "u2", ticker |-> "AAPL", recommendation |-> "hold",
                created_at |-> 1]>>)

SpecRecommendations == InitRecommendations /\ [][NextRecommendations]_vars

\* ------------------------------------------------- the mobile AppProvider
backendVars == <<ledgerVars, watchVars, recVars>>

\* new Date().toISOString().split('T')[0] on the day of the behaviour
Today == "2025-06-01"

\* prev.find(h => h.symbol === symbol): the position, 0 for undefined
find(hs, symbol) ==
  IF \E i \in DOMAIN hs : hs[i].symbol = symbol
  THEN CHOOSE i \in DOMAIN hs :
         hs[i].symbol = symbol /\ \A j \in DOMAIN hs : hs[j].symbol = symbol => i <= j
  ELSE 0

\* prev.filter(x => x.symbol !== symbol)
filter(hs, symbol) == SelectSeq(hs, LAMBDA x : x.symbol # symbol)

\* the holdings updater of buy, on the state it is applied to
BuyHoldings(prev, up) ==
  LET i == find(prev, up.symbol)
  IN  IF i # 0
      THEN LET nq == prev[i].qty + up.qty
               na == IF nq = 0 THEN NaN
                     ELSE ((prev[i].avgPrice * prev[i].qty) + (up.price * up.qty)) \div nq
           IN  [j \in DOMAIN prev |->
                 IF prev[j].symbol = up.symbol
                 THEN [prev[j] EXCEPT !.qty = nq, !.avgPrice = na]
                 ELSE prev[j]]
      ELSE Append(prev, [symbol |-> up.symbol, qty |-> up.qty, avgPrice |-> up.price])

\* the holdings updater of sell: rem from the holding h the call captured
SellHoldings(prev, up) ==
  LET rem == up.held - up.qty
  IN  IF rem <= 0 THEN filter(prev, up.symbol)
      ELSE [j \in DOMAIN prev |->
             IF prev[j].symbol = up.symbol THEN [prev[j] EXCEPT !.qty = rem] ELSE prev[j]]

\* p.includes(sym) ? p.filter(s => s !== sym) : [...p, sym]
ToggleWatchlist(p, sym) ==
  IF \E i \in DOMAIN p : p[i] = sym
  THEN SelectSeq(p, LAMBDA x : x # sym)
  ELSE Append(p, sym)

HistoryEntry(up) ==
  [type |-> up.kind, symbol |-> up.symbol, qty |-> up.qty, price |-> up.price,
   date |-> Today]

\* the set* calls of one call, applied to the state s
ApplyUpdate(s, up) ==
  CASE up.kind = "buy" ->
         [s EXCEPT !.cash = @ - up.qty * up.price,
                   !.holdings = BuyHoldings(@, up),
                   !.history = <<HistoryEntry(up)>> \o @]
    [] up.kind = "sell" ->
         [s EXCEPT !.cash = @ + up.qty * up.price,
                   !.holdings = SellHoldings(@, up),
                   !.history = <<HistoryEntry(up)>> \o @]
    [] up.kind = "toggle" ->
         [s EXCEPT !.watchlist = ToggleWatchlist(@, up.symbol)]
    [] OTHER -> DEFAULTS

RECURSIVE ApplyUpdates(_, _)
\* the queued updaters run in the order of their calls
ApplyUpdates(s, ups) ==
  IF ups = << >> THEN s ELSE ApplyUpdates(ApplyUpdate(s, Head(ups)), Tail(ups))

\* the load effect: the saved document when it has holdings, DEFAULTS
\* otherwise
Load(item) ==
  IF item = << >> THEN DEFAULTS
  ELSE IF Len(item[1].holdings) > 0 THEN item[1]
  ELSE DEFAULTS

\* one more call of the behaviour
Counted == ncall < MaxMobileCalls /\ ncall' = ncall + 1

\* a call queues its updaters, or none when it returns false
Called(ups) ==
  /\ updates' = updates \o ups
  /\ UNCHANGED <<backendVars, app, storage>>

Update(kind, symbol, qty, price, held) ==
  [kind |-> kind, symbol |-> symbol, qty |-> qty, price |-> price, held |-> held]

\* buy(symbol, name, qty, price): cost against the cash of the last render
buy(symbol, qty, price) ==
  /\ Counted
  /\ IF qty * price > app.cash
     THEN Called(<< >>)
     ELSE Called(<<Update("buy", symbol, qty, price, 0)>>)

\* sell(symbol, qty, price): h from the holdings of the last render
sell(symbol, qty, price) ==
  /\ Counted
  /\ LET i == find(app.holdings, symbol)
     IN  IF i = 0 \/ app.holdings[i].qty < qty
         THEN Called(<< >>)
         ELSE Called(<<Update("sell", symbol, qty, price, app.holdings[i].qty)>>)

toggleWatch(sym) ==
  /\ Counted
  /\ Called(<<Update("toggle", sym, 0, 0, 0)>>)

\* reset, the onPress of the Reset Portfolio alert
reset ==
  /\ Counted
  /\ Called(<<Update("reset", None, 0, 0, 0)>>)

\* React re-renders: the queued updaters run, and the save effect stores
\* the new state.
Render ==
  /\ updates # << >>
  /\ app' = ApplyUpdates(app, updates)
  /\ updates' = << >>
  /\ storage' = <<stringify(app')>>
  /\ UNCHANGED <<backendVars, ncall>>

\* The app is closed and opened again: AppProvider mounts with DEFAULTS,
\* the load effect runs, ready is set and the save effect stores the state.
Remount ==
  /\ updates = << >>
  /\ Counted
  /\ app' = Load(storage)
  /\ storage' = <<stringify(app')>>
  /\ UNCHANGED <<backendVars, updates>>

\* the buys, sells and toggles of the behaviours
MobileBuys == {<<"AAPL", 300, 21530>>, <<"NVDA", 10, 10000>>}
MobileSells == {<<"AAPL", 50, 21530>>, <<"AAPL", 30, 21530>>, <<"TSLA", 25, 24850>>}
MobileToggles == {"NVDA", "TSLA"}

NextMobile ==
  \/ \E b \in MobileBuys : buy(b[1], b[2], b[3])
  \/ \E x \in MobileSells : sell(x[1], x[2], x[3])
  \/ \E sym \in MobileToggles : toggleWatch(sym)
  \/ reset
  \/ Render
  \/ Remount

\* DEFAULTS after TSLA, PLTR, SOFI and NIO were sold at their average prices
SoldDown ==
  [cash |-> 8923500,
   holdings |-> <<DEFAULT_HOLDINGS[1]>>,
   watchlist |-> DEFAULTS.watchlist,
   history |->
     <<[type |-> "sell", symbol |-> "NIO", qty |-> 150, price |-> 520, date |-> Today],
       [type |-> "sell", symbol |-> "SOFI", qty |-> 300, price |-> 945, date |-> Today],
       [type |-> "sell", symbol |-> "PLTR", qty |-> 200, price |-> 2280, date |-> Today],
       [type |-> "sell", symbol |-> "TSLA", qty |-> 25, price |-> 24850, date |-> Today]>>
     \o DEFAULTS.history]

\* the app as installed, or as left after four sells
InitMobile ==
  /\ InitBackend({"u1"}, [cash |-> StartCash, holdings |-> NoHoldings, transactions |-> << >>],
                 0, << >>)
  /\ \E s \in {DEFAULTS, SoldDown} : InitApp(s)

SpecMobile == InitMobile /\ [][NextMobile]_vars

\* ------------------------------------------------- the claims' vocabulary
Done(c) == req[c].pc = "done"

\* quantity * pricePerShare of c's request, in 1/10000 dollar
TotalOf(c) == Total(req[c].quantity, req[c].pricePerShare)

\* c's request ends in this step
Finishing(c) == req'[c].pc = "done" /\ (req[c].pc # "done" \/ req'[c].id # req[c].id)

LedgerUnchanged ==
  /\ cash_balance' = cash_balance
  /\ holdings' = holdings
  /\ transactions' = transactions

\* the sum of total_amount over the transactions rows of one type
RECURSIVE SumAmounts(_, _)
SumAmounts(txs, type) ==
  IF txs = << >> THEN 0
  ELSE (IF Head(txs).transaction_type = type THEN Head(txs).total_amount ELSE 0)
         + SumAmounts(Tail(txs), type)

\* the shares of a ticker that the committed trades of one kind moved
RECURSIVE SumQuantity(_, _, _)
SumQuantity(trades, op, ticker) ==
  IF trades = << >> THEN 0
  ELSE (IF Head(trades).op = op /\ Head(trades).ticker = ticker
        THEN Head(trades).quantity ELSE 0)
         + SumQuantity(Tail(trades), op, ticker)

\* one trade executed alone on a ledger
ApplyTrade(l, tr) ==
  LET total == Total(tr.quantity, tr.pricePerShare)
      rows == HoldingRows(l.holdings, tr.ticker)
  IN
  IF tr.op = "buy"
  THEN IF l.cash * PriceUnitsPerCent < total THEN l
       ELSE [cash |-> DeductCash(l.cash, total),
             holdings |-> UpsertHolding(l.holdings, rows, tr.ticker,
                                        tr.quantity, tr.pricePerShare),
             transactions |-> Append(l.transactions,
                TransactionRow("buy", tr.ticker, tr.quantity, tr.pricePerShare))]
  ELSE IF Len(rows) = 0 \/ rows[1].quantity < tr.quantity THEN l
       ELSE [cash |-> AddCash(l.cash, total),
             holdings |-> ReduceHolding(l.holdings, tr.ticker, rows[1].quantity,
                                        tr.quantity, tr.pricePerShare),
             transactions |-> Append(l.transactions,
                TransactionRow("sell", tr.ticker, tr.quantity, tr.pricePerShare))]

\* the trades executed one after another, each alone
RECURSIVE Replay(_, _)
Replay(l, trades) ==
  IF trades = << >> THEN l ELSE Replay(ApplyTrade(l, Head(trades)), Tail(trades))

CommittedOf(u) == SelectSeq(committed, LAMBDA tr : tr.user = u)

HeldQuantity(h, t) == IF t \in DOMAIN h THEN h[t].quantity ELSE 0

\* ------------------------------------------------------------------ C1
\* C1: in every state reached by committed buys and sells (any quantity and
\* price the handlers accept), each portfolio's cash balance is >= 0.
C1_CashNeverNegative == \A u \in DOMAIN cash_balance : cash_balance[u] >= 0

\* ------------------------------------------------------------------ C2
\* two requests of the same portfolio that started on the same committed
\* rows, and were both decided by the cash test
ConcurrentBuys(c, d) ==
  /\ c # d /\ Done(c) /\ Done(d)
  /\ req[c].op = "buy" /\ req[d].op = "buy"
  /\ req[c].user = req[d].user
  /\ req[c].seq0 = req[d].seq0
  /\ req[c].result \in {"success", "insufficient_funds"}
  /\ req[d].result \in {"success", "insufficient_funds"}

\* C2: of two concurrent buys of one portfolio, each affordable alone and
\* together costing more than the cash, exactly one commits and the other is
\* rejected for insufficient funds; never both commit.
C2_ExactlyOneBuyCommits ==
  \A c, d \in Clients :
    (/\ ConcurrentBuys(c, d)
     /\ TotalOf(c) <= req[c].bal0 * PriceUnitsPerCent
     /\ TotalOf(d) <= req[c].bal0 * PriceUnitsPerCent
     /\ TotalOf(c) + TotalOf(d) > req[c].bal0 * PriceUnitsPerCent)
    => \/ req[c].result = "success" /\ req[d].result = "insufficient_funds"
       \/ req[d].result = "success" /\ req[c].result = "insufficient_funds"

\* ------------------------------------------------------------------ C3
\* C3: trades of a portfolio are serialized: its committed rows are those of
\* the committed trades executed one at a time in commit order, and for each
\* ticker the quantity sold never exceeds the quantity held and bought, the
\* holding being what is left.
C3_Serialized ==
  \A u \in DOMAIN cash_balance :
    /\ Ledger(u) = Replay(opening[u], CommittedOf(u))
    /\ \A t \in Tickers :
         LET had == HeldQuantity(opening[u].holdings, t)
             bought == SumQuantity(CommittedOf(u), "buy", t)
             sold == SumQuantity(CommittedOf(u), "sell", t)
         IN /\ sold <= had + bought
            /\ HeldQuantity(holdings[u], t) = had + bought - sold

\* two sells of one ticker ran concurrently for more shares than were held:
\* one committed, the other was refused
C3_Witness ==
  \E c, d \in Clients :
    /\ c # d /\ Done(c) /\ Done(d)
    /\ req[c].op = "sell" /\ req[d].op = "sell"
    /\ req[c].user = req[d].user
    /\ toUpperCase(req[c].ticker) = toUpperCase(req[d].ticker)
    /\ req[c].seq0 = req[d].seq0
    /\ req[c].quantity + req[d].quantity
         > HeldQuantity(opening[req[c].user].holdings, toUpperCase(req[c].ticker))
    /\ req[c].seq0 = 0
    /\ req[c].result = "success"
    /\ req[d].result = "insufficient_shares"

\* ------------------------------------------------------------------ C4
\* C4: conservation: the buys' total_amount plus the cash minus the sells'
\* total_amount equals the initial cash.
C4_Conservation ==
  \A u \in DOMAIN cash_balance :
    SumAmounts(transactions[u], "buy") + cash_balance[u]
      - SumAmounts(transactions[u], "sell")
    = SumAmounts(opening[u].transactions, "buy") + opening[u].cash
      - SumAmounts(opening[u].transactions, "sell")

\* ------------------------------------------------------------------ C5
\* C5: all-or-nothing: the step in which a buy or sell ends without success
\* (a failed test, a missing portfolios row, an error after the cash update,
\* the holding update or the transaction insert) leaves the committed cash,
\* holdings and transactions as they were, and while the request runs
\* nothing of it is committed.
C5_AllOrNothing ==
  [][\A c \in Clients :
       /\ (Finishing(c) /\ req'[c].result # "success") => LedgerUnchanged
       /\ (~Finishing(c) /\ req'[c] # req[c]) => LedgerUnchanged]_vars

\* a request failed after its transaction had deducted the cash, written the
\* holding and inserted the transactions row
C5_Witness ==
  \E c \in Clients :
    /\ Done(c) /\ req[c].result = "error" /\ req[c].failedAt = "tx"
    /\ transactions[req[c].user] = << >>
    /\ cash_balance[req[c].user] = StartCash

\* ------------------------------------------------------------------ C6
\* the handler read the portfolios row and reached the cash test
ReachedCashTest(r) ==
  /\ r.op = "buy"
  /\ r.result \in {"success", "insufficient_funds"} \/ r.failedAt \in {"cash", "holding", "tx"}

C7_InsufficientShares ==
  [][\A c \in Clients :
       (Finishing(c) /\ req'[c].op = "sell" /\ Len(req'[c].holdingRows) > 0) =>
         LET r == req'[c]
             row == r.holdingRows[1]
         IN /\ row = holdings[r.user][toUpperCase(r.ticker)]
            /\ (row.quantity < r.quantity) =>
                 (r.result = "insufficient_shares" /\ LedgerUnchanged)
            /\ (row.quantity >= r.quantity) => r.result # "insufficient_shares"]_vars

\* a sell of two shares of a holding of one was refused
C7_Witness ==
  \E c \in Clients :
    /\ Done(c) /\ req[c].op = "sell" /\ req[c].result = "insufficient_shares"
    /\ Len(req[c].holdingRows) > 0
    /\ req[c].holdingRows[1].quantity = 1 /\ req[c].quantity = 2
    /\ holdings[req[c].user][toUpperCase(req[c].ticker)].quantity = 1

\* ------------------------------------------------------------------ C8
\* the handler read the portfolios row and looked for the holding
LookedForHolding(r) ==
  /\ r.op = "sell"
  /\ r.result \in {"success", "no_holding", "insufficient_shares"}
       \/ r.failedAt \in {"cash", "holding", "tx"}

\* C8: a sell of a ticker the portfolio has no holding of ends with a
\* no-such-holding error, credits no cash, creates no holding and appends no
\* transaction; a sell of a ticker that is held does not end so.
C8_NoSuchHolding ==
  [][\A c \in Clients :
       (Finishing(c) /\ LookedForHolding(req'[c])) =>
         LET r == req'[c]
             t == toUpperCase(r.ticker)
         IN /\ (t \notin DOMAIN holdings[r.user]) =>
                 /\ r.result = "no_holding"
                 /\ LedgerUnchanged
                 /\ t \notin DOMAIN holdings'[r.user]
            /\ (t \in DOMAIN holdings[r.user]) => r.result # "no_holding"]_vars

\* a sell of a ticker that is not held was refused in a portfolio that holds
\* another ticker
C8_Witness ==
  \E c \in Clients :
    /\ Done(c) /\ req[c].op = "sell" /\ req[c].result = "no_holding"
    /\ toUpperCase(req[c].ticker) \notin DOMAIN holdings[req[c].user]
    /\ DOMAIN holdings[req[c].user] # {}

\* ------------------------------------------------------------------ C9
\* the transactions rows of one ticker
RowsOf(txs, t) == SelectSeq(txs, LAMBDA x : x.ticker = t)

ValidBuyRow(x) ==
  x.transaction_type = "buy" /\ x.quantity > 0 /\ x.price_per_share > 0

\* the ticker's transactions are one buy: the holding has its quantity, and
\* average and current price are its price
FirstBuy(u, t) ==
  LET rows == RowsOf(transactions[u], t) IN
  (Len(rows) = 1 /\ ValidBuyRow(rows[1])) =>
    /\ t \in DOMAIN holdings[u]
    /\ holdings[u][t].quantity = rows[1].quantity
    /\ holdings[u][t].avg_buy_price = rows[1].price_per_share
    /\ holdings[u][t].current_price = rows[1].price_per_share

SellCommits(c) ==
  Finishing(c) /\ req'[c].op = "sell" /\ req'[c].result = "success"

\* the holding after a committed sell: removed when all of it was sold, else
\* what was held less what was sold at the same average price
HoldingAfterSell(r) ==
  LET t == toUpperCase(r.ticker)
      held == holdings[r.user][t]
  IN /\ (r.quantity = held.quantity) => t \notin DOMAIN holdings'[r.user]
     /\ (r.quantity < held.quantity) =>
          /\ t \in DOMAIN holdings'[r.user]
          /\ holdings'[r.user][t].quantity = held.quantity - r.quantity
          /\ holdings'[r.user][t].avg_buy_price = held.avg_buy_price

C11_HoldingsPositive ==
  \A u \in DOMAIN holdings : \A t \in DOMAIN holdings[u] :
    /\ holdings[u][t].quantity > 0
    /\ holdings[u][t].avg_buy_price > 0

\* ----------------------------------------------------------------- C12
\* the request's quantity or price is not positive, or its ticker is missing
InvalidInput(r) ==
  r.quantity <= 0 \/ r.pricePerShare <= 0 \/ FalsyString(r.ticker)

\* C12: a buy or sell whose quantity or price is not positive, or that lacks
\* a field, is rejected before any row is read or written: it never takes a
\* step of the transaction and ends with the validation error.
C12_InvalidRejected ==
  \A c \in Clients :
    (req[c].pc # "idle" /\ InvalidInput(req[c])) =>
      (req[c].pc = "done" /\ req[c].result = "validation")

\* ----------------------------------------------------------------- C13
\* c's transaction commits in this step
CommitsNow(c) == Finishing(c) /\ req'[c].result = "success"

\* the step's effect on the transactions of portfolio u: one row of the
\* committing request appended (side, upper-cased ticker, quantity, price,
\* and a total for which exact(total, quantity * price) holds), or nothing
AppendsOnly(u, exact(_, _)) ==
  IF \E c \in Clients : CommitsNow(c) /\ req'[c].user = u
  THEN \E c \in Clients :
         /\ CommitsNow(c) /\ req'[c].user = u
         /\ Len(transactions'[u]) = Len(transactions[u]) + 1
         /\ SubSeq(transactions'[u], 1, Len(transactions[u])) = transactions[u]
         /\ LET row == transactions'[u][Len(transactions'[u])]
                r == req'[c]
            IN /\ row.transaction_type = r.op
               /\ row.ticker = toUpperCase(r.ticker)
               /\ row.quantity = r.quantity
               /\ row.price_per_share = r.pricePerShare
               /\ exact(row.total_amount, r.quantity * r.pricePerShare)
  ELSE transactions'[u] = transactions[u]

Failures == {"insufficient_funds", "no_holding", "insufficient_shares", "error"}

\* the TradeResult of a resolver call that ends in this step: success with
\* the row exactly when the transaction committed in this step, otherwise a
\* failure with null transaction and null updatedCashBalance
StructuredResult(c) ==
  LET r == req'[c] IN
  /\ (r.result = "success") <=> (committed' # committed)
  /\ (r.result = "success") =>
       /\ r.transaction = <<transactions'[r.user][Len(transactions'[r.user])]>>
       /\ Len(transactions'[r.user]) = Len(transactions[r.user]) + 1
  /\ (r.result # "success") =>
       /\ r.result \in Failures
       /\ r.transaction = << >>
       /\ r.updatedCashBalance = Null
       /\ LedgerUnchanged

\* C14: a GraphQL buyStock or sellStock returns success = true, with the
\* transaction and with updatedCashBalance equal to the committed cash
\* balance, exactly when its transaction committed; every failure is
\* returned as success = false with null transaction and updatedCashBalance.
C14_ResultMatchesCommit ==
  [][\A c \in Clients :
       (Finishing(c) /\ req'[c].api = "graphql") =>
         /\ StructuredResult(c)
         /\ (req'[c].result = "success") =>
              req'[c].updatedCashBalance
                = cash_balance'[req'[c].user] * PriceUnitsPerCent]_vars

\* C14 without the value of updatedCashBalance: the result's shape
C14_StructuredResult ==
  [][\A c \in Clients :
       (Finishing(c) /\ req'[c].api = "graphql") =>
         /\ StructuredResult(c)
         /\ (req'[c].result = "success") => req'[c].updatedCashBalance # Null]_vars

\* ----------------------------------------------------------------- C15
\* c's request is running
Running(c) == req[c].pc \notin {"idle", "done"}

\* c waits for the lock that another request holds on its portfolios row
WaitsForLock(c) ==
  /\ req[c].pc = "begin"
  /\ req[c].user \in DOMAIN cash_balance
  /\ lock[req[c].user] \notin {None, c}

\* C15, completion: every running buy or sell ends with a response, and a
\* request waiting for the row lock gets past the wait.
C15_EventuallyCompletes ==
  \A c \in Clients :
    /\ Running(c) ~> Done(c)
    /\ WaitsForLock(c) ~> ~WaitsForLock(c)

\* C15, timeout: a request whose wait for the lock times out ends with an
\* error that is marked as retryable.
C15_LockTimeoutRetryable ==
  [][\A c \in Clients :
       (WaitsForLock(c) /\ Finishing(c) /\ req'[c].failedAt = "lock") =>
         req'[c].result = "retryable"]_vars

\* ----------------------------------------------------------------- C16
\* the step is one of c's request
StepOf(c) == req'[c] # req[c]

\* the committed rows and the lock of portfolio u stay as they are
PortfolioUntouched(u) ==
  /\ cash_balance'[u] = cash_balance[u]
  /\ holdings'[u] = holdings[u]
  /\ transactions'[u] = transactions[u]
  /\ lock'[u] = lock[u]

RECURSIVE SumOfHoldings(_, _)
SumOfHoldings(h, tickers) ==
  IF tickers = {} THEN 0
  ELSE LET t == CHOOSE x \in tickers : TRUE
           price == IF h[t].current_price # Null
                    THEN h[t].current_price ELSE h[t].avg_buy_price
       IN h[t].quantity * price + SumOfHoldings(h, tickers \ {t})

\* c's valuation returns in this step
Valued(c) == Finishing(c) /\ req'[c].op = "value" /\ req'[c].result = "valued"

\* C17: the valuation, REST or GraphQL, returns totalValue = cash balance +
\* the sum over the holdings of quantity * (current price if it is set,
\* otherwise average buy price): of the cash it read and the holdings it
\* read, which are the committed ones when no trade committed meanwhile.
C17_TotalValue ==
  [][\A c \in Clients :
       Valued(c) =>
         LET u == req'[c].user IN
         /\ req'[c].totalValue
              = req'[c].portfolio * PriceUnitsPerCent
                  + SumOfHoldings(holdings[u], DOMAIN holdings[u])
         /\ (req'[c].seq0 = Len(committed)) =>
              req'[c].totalValue
                = cash_balance[u] * PriceUnitsPerCent
                    + SumOfHoldings(holdings[u], DOMAIN holdings[u])]_vars

\* a valuation of cash 3.01, three AAPL last priced at 0 and one MSFT with
\* no current price and the average 1.0000: 3.01 + 0 + 1.00
C17_Witness ==
  \E c \in Clients :
    /\ Done(c) /\ req[c].op = "value" /\ req[c].result = "valued"
    /\ Len(req[c].holdingRows) = 2
    /\ req[c].holdingRows[1].quantity = 3 /\ req[c].holdingRows[1].current_price = 0
    /\ req[c].holdingRows[1].avg_buy_price > 0
    /\ req[c].holdingRows[2].current_price = Null
    /\ req[c].portfolio = 301
    /\ req[c].totalValue = 40100

\* ----------------------------------------------------------------- C18
\* two valuations of one portfolio have returned and no trade has committed
\* since either began: they returned the same totalValue
Repeatable ==
  \A c, d \in Clients :
    (/\ Done(c) /\ req[c].op = "value" /\ req[c].result = "valued"
     /\ Done(d) /\ req[d].op = "value" /\ req[d].result = "valued"
     /\ req[c].user = req[d].user
     /\ req[c].seq0 = Len(committed) /\ req[d].seq0 = Len(committed))
    => req[c].totalValue = req[d].totalValue

\* C18: a step of a valuation changes no cash balance, holding, transaction
\* or lock, and two valuations with no trade committed between them return
\* the same totalValue.
C18_ReadOnlyRepeatable ==
  [][/\ \A c \in Clients :
          (StepOf(c) /\ req'[c].op = "value") => (LedgerUnchanged /\ lock' = lock)
     /\ Repeatable']_vars

\* a REST and a GraphQL valuation of the same portfolio, with no commit
\* since the start, both returned 6.02
C18_Witness ==
  \E c, d \in Clients :
    /\ Done(c) /\ req[c].op = "value" /\ req[c].api = "rest"
    /\ Done(d) /\ req[d].op = "value" /\ req[d].api = "graphql"
    /\ req[c].user = req[d].user
    /\ Len(committed) = 0
    /\ req[c].totalValue = 60200 /\ req[d].totalValue = 60200
    /\ Ledger(req[c].user) = opening[req[c].user]

\* ----------------------------------------------------------------- C19
\* a committed trade of u1 in AAPL
Trade(op, quantity, pricePerShare) ==
  [user |-> "u1", op |-> op, ticker |-> "AAPL", quantity |-> quantity,
   pricePerShare |-> pricePerShare]

\* the scenario's states: after the first buy cash 89235.00 and 50 AAPL at
\* the average 215.30; after the second buy the cash afterBuys and 100 AAPL
\* at the average 220.15; after the sell the cash afterSell and no AAPL
ScenarioStates(afterBuys, afterSell) ==
  LET trades == CommittedOf("u1")
      buy1 == Trade("buy", 50, 2153000)
      buy2 == Trade("buy", 50, 2250000)
      sell1 == Trade("sell", 100, 2300000)
  IN /\ (trades = <<buy1>>) =>
          /\ cash_balance["u1"] = 8923500
          /\ "AAPL" \in DOMAIN holdings["u1"]
          /\ holdings["u1"]["AAPL"].quantity = 50
          /\ holdings["u1"]["AAPL"].avg_buy_price = 2153000
     /\ (trades = <<buy1, buy2>>) =>
          /\ cash_balance["u1"] = afterBuys
          /\ "AAPL" \in DOMAIN holdings["u1"]
          /\ holdings["u1"]["AAPL"].quantity = 100
          /\ holdings["u1"]["AAPL"].avg_buy_price = 2201500
     /\ (trades = <<buy1, buy2, sell1>>) =>
          /\ cash_balance["u1"] = afterSell
          /\ "AAPL" \notin DOMAIN holdings["u1"]

\* C19 as claimed: from cash 100000.00 and no holdings, buy 50 AAPL at 215.30
\* gives cash 89235.00 and 50 AAPL at the average 215.30; then buy 50 at
\* 225.00 gives 100 AAPL at the average 220.15 and cash 78235.00; then sell
\* 100 at 230.00 gives cash 101235.00 and no AAPL holding.
C19_ScenarioAsStated == ScenarioStates(7823500, 10123500)

\* C19 amended: the cash after the second buy is 89235.00 - 11250.00 =
\* 77985.00, and after the sell 77985.00 + 23000.00 = 100985.00.
C19_Scenario == ScenarioStates(7798500, 10098500)

\* the three trades have committed: cash 100985.00, no holding, three
\* transactions
C19_Witness ==
  /\ CommittedOf("u1") =
       <<Trade("buy", 50, 2153000), Trade("buy", 50, 2250000), Trade("sell", 100, 2300000)>>
  /\ cash_balance["u1"] = 10098500
  /\ holdings["u1"] = NoHoldings
  /\ Len(transactions["u1"]) = 3

\* the rows of the three tables register writes, and what hangs off a
\* portfolios row
RegisterTables == <<users, risk_profiles, portfolios, cash_balance, holdings, transactions>>

\* every users row has its risk profile and exactly one portfolios row, and
\* no risk profile or portfolio is without its users row
AllThreeOrNone ==
  /\ \A r \in users :
       /\ r.id \in risk_profiles
       /\ Cardinality({p \in portfolios : p.user_id = r.id}) = 1
       /\ r.id \in DOMAIN cash_balance
  /\ \A id \in risk_profiles \cup UserIds(portfolios) : \E r \in users : r.id = id

\* c's register commits in this step
RegisterCommits(c) == req[c].pc = "reg_portfolio" /\ req'[c].pc = "reg_committed"

\* C20: registration is atomic and gives the new user $100k.  In every
\* committed state each user has a risk profile and exactly one portfolio
\* and no profile or portfolio lacks its user; the COMMIT of a register adds
\* one users row of its e-mail, with a new id, its risk profile and one
\* portfolio of cash balance 100000.00 and nothing else; every other step of
\* a register, its failure included, leaves the tables as they were.  Two
\* registers of one e-mail running concurrently are among the behaviours.
C20_RegistrationAtomic ==
  [][/\ AllThreeOrNone
     /\ AllThreeOrNone'
     /\ \A c \in Clients :
          RegisterCommits(c) =>
            /\ \E id \in NewIds :
                 /\ id \notin {r.id : r \in users}
                 /\ users' = users \cup {[id |-> id, email |-> req[c].email]}
                 /\ risk_profiles' = risk_profiles \cup {id}
                 /\ \E p \in portfolios' \ portfolios :
                      /\ p.user_id = id
                      /\ portfolios' = portfolios \cup {p}
                 /\ cash_balance'[id] = DefaultCash
                 /\ holdings'[id] = NoHoldings
                 /\ transactions'[id] = << >>
            /\ \A u \in DOMAIN cash_balance :
                 /\ cash_balance'[u] = cash_balance[u]
                 /\ holdings'[u] = holdings[u]
                 /\ transactions'[u] = transactions[u]
     /\ (\A c \in Clients : ~RegisterCommits(c)) => UNCHANGED RegisterTables]_vars

\* two registers of one new e-mail overlapped: both passed the SELECT, one
\* committed, the other's INSERT INTO users was refused, and one users row
\* has the e-mail
C20_Witness ==
  /\ \A c \in Clients :
       /\ req[c].op = "register"
       /\ req[c].pc = "done"
       /\ req[c].email = "c@x.io"
  /\ \E c, d \in Clients :
       /\ req[c].result = "success"
       /\ req[d].result = "error"
       /\ req[d].failedAt = "reg_begin"
       /\ \E r \in users : r.id = req[c].user /\ r.email = "c@x.io"
  /\ Cardinality({r \in users : r.email = "c@x.io"}) = 1
  /\ AllThreeOrNone

\* the watchlist entries of user u whose ticker upper-cases as t does
EntriesOf(wl, u, t) ==
  {w \in wl : w.user_id = u /\ toUpperCase(w.ticker) = toUpperCase(t)}

\* a watchlist request has just been answered without a database error
WatchlistAnswered(op) == wlast' # wlast /\ wlast'.op = op /\ wlast'.status # 500

\* C21: the watchlist holds at most one entry per (user, upper-cased
\* ticker) after any addToWatchlist and removeFromWatchlist calls, REST or
\* GraphQL, in any letter case: an add of a ticker already present leaves
\* the entries of that pair as many as they were (the same row id), an add
\* of an absent ticker that is accepted leaves exactly one, and a remove
\* leaves none; the entries of every other pair stay as they were.
C21_WatchlistUnique ==
  [][/\ \A u \in Users, t \in WatchTickerInputs :
          Cardinality(EntriesOf(watchlist', u, t)) <= 1
     /\ WatchlistAnswered("add") =>
          LET u == wlast'.user
              t == wlast'.ticker
              before == EntriesOf(watchlist, u, t)
              after == EntriesOf(watchlist', u, t)
          IN  /\ before # {} => {w.id : w \in after} = {w.id : w \in before}
              /\ (before = {} /\ wlast'.status # 400) => Cardinality(after) = 1
     /\ WatchlistAnswered("remove") =>
          EntriesOf(watchlist', wlast'.user, wlast'.ticker) = {}
     /\ \A u \in Users, t \in WatchTickerInputs :
          (u # wlast'.user \/ toUpperCase(t) # toUpperCase(wlast'.ticker)) =>
            EntriesOf(watchlist', u, t) = EntriesOf(watchlist, u, t)]_vars

\* AAPL was added as "aapl" over REST, added again as "AAPL" over GraphQL
\* (one row, its added_at renewed), and MSFT was removed after being added
C21_Witness ==
  /\ \E w \in watchlist :
       /\ w.user_id = "u1"
       /\ w.ticker = "AAPL"
       /\ w.added_at > w.id
  /\ Cardinality(EntriesOf(watchlist, "u1", "aapl")) = 1
  /\ wlast.op = "remove"
  /\ wlast.ticker = "MSFT"
  /\ wlast.user = "u1"
  /\ nwatch = MaxWatchlistCalls
  /\ EntriesOf(watchlist, "u1", "MSFT") = {}

\* c's recommendations request is answered from the cache in this step
AnswersCached(c) == rec[c].pc = "cached" /\ rec'[c].pc = "done" /\ rec'[c].cached

\* the positions of the table that hold user u's rows of ticker t
StoredAt(u, t) ==
  {i \in DOMAIN ai_recommendations :
     ai_recommendations[i].user_id = u /\ ai_recommendations[i].ticker = t}

\* C22: when the prediction source is unreachable, the recommendations read
\* returns at most one record per ticker, each returned record is the
\* calling user's row stored last for its ticker, and no record of another
\* user is returned.
C22_LatestPerTicker ==
  [][\A c \in Clients :
       AnswersCached(c) =>
         LET returned == rec'[c].recommendations
         IN  /\ Len(returned) > 0
             /\ \A i, j \in DOMAIN returned :
                  returned[i].ticker = returned[j].ticker => i = j
             /\ \A i \in DOMAIN returned :
                  /\ returned[i].user_id = rec[c].user
                  /\ \E k \in StoredAt(rec[c].user, returned[i].ticker) :
                       /\ ai_recommendations[k] = returned[i]
                       /\ \A m \in StoredAt(rec[c].user, returned[i].ticker) : m <= k]_vars

\* u1's cached answer is its later AAPL row and its MSFT row, while the
\* table also holds u1's earlier AAPL row and a row of u2
C22_Witness ==
  \E c \in Clients :
    /\ rec[c].pc = "done"
    /\ rec[c].cached
    /\ rec[c].user = "u1"
    /\ Len(rec[c].recommendations) = 2
    /\ rec[c].recommendations[1].ticker = "AAPL"
    /\ rec[c].recommendations[1].recommendation = "sell"
    /\ rec[c].recommendations[2].ticker = "MSFT"
    /\ Cardinality(StoredAt("u1", "AAPL")) = 2
    /\ StoredAt("u2", "AAPL") # {}

\* c's request is answered in this step, its prediction call having failed
AnswersAfterFailure(c) ==
  rec[c].pc \in {"predict", "cached"} /\ rec'[c].pc = "done" /\ rec'[c].code # None

\* C23: whenever the call to the prediction source fails (connection
\* refused, timeout, or an error response), the request is answered from
\* the cached records, the caller having some, with the cached flag set and
\* an explanatory message, not as a hard failure.
C23_FallbackOnFailure ==
  [][\A c \in Clients :
       (AnswersAfterFailure(c) /\ RecommendationsOf(ai_recommendations, rec'[c].user) # {}) =>
         /\ rec'[c].status = 200
         /\ rec'[c].cached
         /\ rec'[c].message # None
         /\ rec'[c].recommendations = SelectCached(ai_recommendations, rec'[c].user)]_vars

\* the requests whose prediction call failed with a code the catch block
\* tests for, with a cached row to serve, are answered in degraded mode
C23_FallbackOnRefused ==
  [][\A c \in Clients :
       (rec[c].pc = "cached" /\ rec'[c].pc = "done") =>
         IF RecommendationsOf(ai_recommendations, rec[c].user) # {}
         THEN rec'[c].status = 200 /\ rec'[c].cached /\ rec'[c].message # None
         ELSE rec'[c].status = 503]_vars

\* the re-render in which a confirmed reset takes effect
ResetRendered ==
  /\ updates # << >>
  /\ updates[Len(updates)].kind = "reset"
  /\ updates' = << >>

\* C24: confirming 'Reset Portfolio' leaves the user with $100k cash and
\* with holdings, watchlist and trade history cleared, from any prior state.
C24_ResetGives100k ==
  [][ResetRendered =>
       /\ app'.cash = DefaultCash
       /\ app'.holdings = << >>
       /\ app'.watchlist = << >>
       /\ app'.history = << >>]_vars

\* what reset does: the state and the saved document are DEFAULTS again
C24_ResetGivesDefaults ==
  [][ResetRendered => (app' = DEFAULTS /\ storage' = <<stringify(DEFAULTS)>>)]_vars

RECURSIVE Net(_, _)
\* the quantity of symbol bought minus the quantity sold, over a history
Net(history, symbol) ==
  IF history = << >> THEN 0
  ELSE (IF Head(history).symbol # symbol THEN 0
        ELSE IF Head(history).type = "buy" THEN Head(history).qty
        ELSE 0 - Head(history).qty)
       + Net(Tail(history), symbol)

\* the quantity of symbol in the holdings, 0 without a holding
Held(hs, symbol) == IF find(hs, symbol) = 0 THEN 0 ELSE hs[find(hs, symbol)].qty

\* the symbols of the holdings and of the history
SymbolsOf(s) ==
  {s.holdings[i].symbol : i \in DOMAIN s.holdings}
    \cup {s.history[i].symbol : i \in DOMAIN s.history}

\* C25: in the mobile AppProvider ledger, after any sequence of buy and
\* sell calls, several calls before a re-render included, cash stays >= 0,
\* the quantity sold of a symbol never exceeds the quantity bought, and each
\* holding's quantity equals bought minus sold.
C25_MobileLedger ==
  /\ app.cash >= 0
  /\ \A symbol \in SymbolsOf(app) :
       /\ Net(app.history, symbol) >= 0
       /\ Held(app.holdings, symbol) = Net(app.history, symbol)

\* the app is opened again in this step: no call queued anything before or
\* during it
Reopened == updates = << >> /\ updates' = << >> /\ ncall' # ncall

\* C30: mobile persistence round-trip.  The saved document is the state
\* reached by buy, sell, toggleWatch and reset, and remounting AppProvider
\* restores exactly that state, a state with all holdings sold included.
C30_RoundTrip ==
  [][Reopened => (storage = <<stringify(app)>> /\ app' = app /\ storage' = storage)]_vars

\* the round trip of the states that have a holding
C30_RoundTripWithHoldings ==
  [][(Reopened /\ app.holdings # << >>) =>
       (storage = <<stringify(app)>> /\ app' = app /\ storage' = storage)]_vars

\* ----------------------------------------------------------------- C26
\* u's committed rows after the first k commits of the behaviour
LedgerAfter(u, k) ==
  Replay(opening[u], SelectSeq(SubSeq(committed, 1, k), LAMBDA tr : tr.user = u))

\* the valuation of a ledger: its cash and its holdings
ValueOfLedger(api, l) == TotalValue(api, l.cash, SelectHoldings(l.holdings))

\* C26: the valuation returned by REST getPortfolio and by GraphQL
\* portfolio corresponds to one committed ledger state: when trades commit
\* between the read of the portfolio row and the read of the holdings, the
\* returned totalValue is cash + holdings value of the state before or
\* after one of them, never a mix of two states.
C26_OneCommittedState ==
  [][\A c \in Clients :
       Valued(c) =>
         \E k \in req'[c].seq0 .. Len(committed) :
           req'[c].totalValue = ValueOfLedger(req'[c].api, LedgerAfter(req'[c].user, k))]_vars

\* the valuations during which no trade committed return the value of the
\* committed state
C26_QuietValuation ==
  [][\A c \in Clients :
       (Valued(c) /\ req'[c].seq0 = Len(committed)) =>
         req'[c].totalValue = ValueOfLedger(req'[c].api, Ledger(req'[c].user))]_vars

\* ------------------------------------------------------------- deadlock
\* Two portfolios that each hold two AAPL, and trades of both users: a
\* trade finds its holdings row and locks it.
InitHeldTwo == InitLedgers({"u1", "u2"}, HeldLedger)

SpecHeldTwo == InitHeldTwo /\ [][NextOf(TwoInputs)]_vars

\* c's handler is between its BEGIN and its COMMIT or ROLLBACK
InTransaction(c) ==
  req[c].op \in Ops /\ req[c].pc \in {"begin", "portfolio", "cash", "holding", "tx"}

\* c's next statement waits for a row lock that another transaction holds
Blocked(c) == InTransaction(c) /\ ~ENABLED Progress(c)

\* C27: concurrent trades never deadlock.  A holdings row is locked only by
\* the transaction that holds the lock of its portfolios row (the portfolio
\* lock is taken first, the holding lock second); a row lock is held only by
\* a handler inside its open transaction, so that each lock is given up by
\* the COMMIT or ROLLBACK every path ends with; and in no state are all the
\* requests in progress blocked: while some trade is inside its
\* transaction, some trade's next statement can be executed.
C27_NoDeadlock ==
  /\ \A u \in Users, t \in StoredTickers : hlock[u][t] # None => lock[u] = hlock[u][t]
  /\ \A u \in Users : lock[u] # None => InTransaction(lock[u]) /\ conn[lock[u]].tx
  /\ (\E c \in Clients : InTransaction(c))
       => \E c \in Clients : InTransaction(c) /\ ~Blocked(c)

\* one trade waits for the portfolios row while the other holds that lock
\* and the lock of the holdings row
C27_Witness ==
  \E c, d \in Clients :
    /\ c # d
    /\ Blocked(c)
    /\ lock[req[c].user] = d
    /\ hlock[req[d].user]["AAPL"] = d

\* ------------------------------------------------------ pooled connections
\* Trades of u1 through both handlers, of one share and of more than the
\* portfolio has or can pay, a sell of a ticker it does not hold, a request
\* the REST controller rejects, a trade of a user without a portfolios row
PooledInputs ==
  Inputs({"u1"}, Apis, Ops, {"aapl"}, {1, 3}, {10050})
    \cup Inputs({"u1"}, {"graphql"}, {"sell"}, {"MSFT"}, {1}, {10050})
    \cup Inputs({"u1"}, {"rest"}, {"buy"}, {"aapl"}, {0}, {10050})
    \cup Inputs({"u2"}, {"graphql"}, {"buy"}, {"aapl"}, {1}, {10050})

\* the handlers that ask the pool for a connection: the trades and register
NextPooled == NextOf(PooledInputs) \/ NextRegister

SpecPooled == InitHeld /\ [][NextPooled]_vars

\* c's handler called pool.connect(): buyStock, sellStock or register
UsesClient(c) == req[c].op \in Ops \cup {"register"}

\* C28: every request that acquires a pooled connection releases it exactly
\* once on every path, and at the release no transaction begun on it is
\* open.  While the handler runs it holds the connection and has not
\* released it; once it has answered (validation rejection, business-rule
\* rejection, commit, error) the connection is not held, was released once,
\* and no transaction was open at the release or is open now.
C28_ReleasedOnce ==
  \A c \in Clients :
    UsesClient(c) =>
      /\ req[c].pc # "done" => conn[c].held /\ conn[c].released = 0
      /\ req[c].pc = "done" =>
           conn[c] = [held |-> FALSE, tx |-> FALSE, released |-> 1, open |-> FALSE]

\* a sell refused after BEGIN answered through ROLLBACK, and a register
\* committed and answered: both connections are back in the pool
C28_Witness ==
  \E c, d \in Clients :
    /\ req[c].pc = "done" /\ req[c].op = "sell" /\ req[c].result = "insufficient_shares"
    /\ req[d].pc = "done" /\ req[d].op = "register" /\ req[d].result = "success"
    /\ conn[c].released = 1 /\ conn[d].released = 1

\* ------------------------------------------- REST controller and resolver
\* the ledgers the two handlers start from: no holding, and two AAPL held
BothLedgers ==
  {[cash |-> StartCash, holdings |-> NoHoldings, transactions |-> << >>], HeldLedger}

\* u1 and u2 have the same ledger
InitBoth == \E l \in BothLedgers : InitLedgers({"u1", "u2"}, l)

\* Trades with quantity > 0 and pricePerShare > 0, of u1 through the REST
\* controller and of u2 through the resolver: of a ticker, of the empty
\* ticker, of one share and of more than the ledger holds or can pay; and a
\* trade of a user without a portfolios row
BothInputs ==
  Inputs({"u1"}, {"rest"}, Ops, {"aapl", ""}, {1, 3}, {10050})
    \cup Inputs({"u2"}, {"graphql"}, Ops, {"aapl", ""}, {1, 3}, {10050})
    \cup Inputs({"u3"}, {"rest"}, {"buy"}, {"aapl"}, {1}, {10050})

SpecBoth == InitBoth /\ [][NextOf(BothInputs)]_vars

\* c's and d's requests carry the same trade
SameTrade(c, d) ==
  /\ req[c].op = req[d].op
  /\ req[c].ticker = req[d].ticker
  /\ req[c].quantity = req[d].quantity
  /\ req[c].pricePerShare = req[d].pricePerShare

\* c served u1's one trade through the REST controller and d served u2's one
\* trade through the resolver, the same trade with quantity > 0 and
\* pricePerShare > 0, and every statement of both was executed
BothServed(c, d) ==
  /\ nreq = 2
  /\ Done(c) /\ req[c].api = "rest" /\ req[c].user = "u1"
  /\ Done(d) /\ req[d].api = "graphql" /\ req[d].user = "u2"
  /\ SameTrade(c, d)
  /\ req[c].quantity > 0 /\ req[c].pricePerShare > 0
  /\ req[c].result # "error" /\ req[d].result # "error"

\* the two handlers accepted or both rejected, and left the same ledger
SameOutcome(c, d) ==
  /\ (req[c].result = "success") <=> (req[d].result = "success")
  /\ cash_balance["u1"] = cash_balance["u2"]
  /\ holdings["u1"] = holdings["u2"]
  /\ transactions["u1"] = transactions["u2"]

\* C29: from the same initial ledger and for the same trade input with
\* quantity > 0 and pricePerShare > 0, the REST controller and the GraphQL
\* resolver agree on acceptance or rejection and leave the same cash
\* balance, holding (quantity, average price, current price) and appended
\* transaction.
C29_SameOutcome ==
  \A c, d \in Clients : BothServed(c, d) => SameOutcome(c, d)

\* C29 for the trades whose ticker is not the empty string
C29_SameOutcomeWithTicker ==
  \A c, d \in Clients :
    (BothServed(c, d) /\ req[c].ticker # "") => SameOutcome(c, d)

\* the same buy of a ticker accepted by both handlers
C29_BothAccepted ==
  \E c, d \in Clients :
    /\ BothServed(c, d) /\ req[c].ticker # "" /\ req[c].op = "buy"
    /\ req[c].result = "success" /\ req[d].result = "success"

====
